---- MODULE Spec2Model ----
(***************************************************************************)
(* A model of the polymarket-lp liquidity bot: the quoter, the order       *)
(* manager, the per-market quote engine (REST tick, websocket requote,     *)
(* dry run), the run loops of cmd_run, and the MarketManager with its      *)
(* RateLimiter, kill switch and rescan.                                    *)
(*                                                                         *)
(* Decimals are fixed point: a price p is the integer p * ONE, a size is   *)
(* an integer number of tokens, a value (size * price) is in the same      *)
(* units as a price.  Quotients that need not be whole (the skew, the      *)
(* fee) are kept as fractions <<num, den>> until they are rounded.         *)
(***************************************************************************)
EXTENDS Integers, Sequences, FiniteSets, TLC

\* Decimal::ONE in the fixed-point unit of the model (1.000).
ONE == 1000

\* dec!(0.5), in the unit.
HALF == ONE \div 2

\* Option: None is the empty tuple, Some(x) is <<x>>.
None == <<>>

Some(x) == <<x>>

\* --------------------------------------------------------------------------
\* Arithmetic helpers

Abs(x) == IF x < 0 THEN -x ELSE x

Min(a, b) == IF a <= b THEN a ELSE b

Max(a, b) == IF a >= b THEN a ELSE b

RECURSIVE GCD(_, _)
GCD(a, b) == IF b = 0 THEN a ELSE GCD(b, a % b)

\* A fraction <<n, d>>, d > 0, in lowest terms.
Frac(n, d) ==
    LET g == GCD(Abs(n), d)
    IN  IF g = 0 THEN <<0, 1>> ELSE <<n \div g, d \div g>>

FracAdd(x, y) == Frac(x[1] * y[2] + y[1] * x[2], x[2] * y[2])

FracMul(x, y) == Frac(x[1] * y[1], x[2] * y[2])

FracLeq(x, y) == x[1] * y[2] <= y[1] * x[2]

FracMax(x, y) == IF FracLeq(x, y) THEN y ELSE x

\* Decimal::round of n/d (d > 0): to the nearest integer, a tie to the even one.
Round(n, d) ==
    LET q == n \div d
        r == n % d
    IN  IF 2 * r < d THEN q
        ELSE IF 2 * r > d THEN q + 1
        ELSE IF q % 2 = 0 THEN q ELSE q + 1

RECURSIVE SumSeq(_)
SumSeq(s) == IF s = <<>> THEN 0 ELSE Head(s) + SumSeq(Tail(s))

RECURSIVE SelectSeqIdx(_, _, _)
\* The elements of s whose index (counted from i) is not in drop.
SelectSeqIdx(s, i, drop) ==
    IF s = <<>> THEN <<>>
    ELSE IF i \in drop THEN SelectSeqIdx(Tail(s), i + 1, drop)
    ELSE <<Head(s)>> \o SelectSeqIdx(Tail(s), i + 1, drop)

\* --------------------------------------------------------------------------
\* quoter.rs

\* cents -> price: c / dec!(100); the cents of the configuration are kept in
\* tenths of a cent (10 is 1.0 cent), so c cents is the fraction c/10 * ONE/100.
CentsToPrice(c) == Frac(c * ONE, 10 * 100)

\* compute_offset: the one-sided distance from the midpoint, as a fraction.
compute_offset(p) ==
    LET base_offset == CentsToPrice(p.base_offset_cents)
        fee_offset ==
            IF p.fee_rate_bps # None
            THEN \* fee_rate * mid * (1 - mid) / 2 + base_offset
                 FracAdd(Frac(p.fee_rate_bps[1] * p.midpoint * (ONE - p.midpoint),
                              10000 * ONE * 2),
                         base_offset)
            ELSE base_offset
        min_offset == CentsToPrice(p.min_offset_cents)
    IN  FracMax(fee_offset, min_offset)

\* align_to_tick of the fraction n/d.
align_to_tick(n, d, tick_size) ==
    IF tick_size = 0 THEN n \div d
    ELSE Round(n, d * tick_size) * tick_size

\* The quote of one level: <<quote>>, or <<>> when the level is dropped.
QuoteOfLevelMutantKeepAll(p, level) ==
    LET base_offset == compute_offset(p)
        level_offset == FracMul(base_offset, Frac(10 + level, 10))
        skew == p.inventory_skew
        bid_offset == FracMul(level_offset, FracAdd(<<1, 1>>, skew))
        ask_offset == FracMul(level_offset, FracAdd(<<1, 1>>, <<-skew[1], skew[2]>>))
        raw_bid == FracAdd(<<p.midpoint, 1>>, <<-bid_offset[1], bid_offset[2]>>)
        raw_ask == FracAdd(<<p.midpoint, 1>>, ask_offset)
    IN  << [bid_price |-> align_to_tick(raw_bid[1], raw_bid[2], p.tick_size),
            ask_price |-> align_to_tick(raw_ask[1], raw_ask[2], p.tick_size),
            size |-> p.order_size, level |-> level] >>

QuoteOfLevel(p, level) ==
    LET base_offset == compute_offset(p)
        \* base_offset + base_offset * Decimal::new(level, 1)
        level_offset == FracMul(base_offset, Frac(10 + level, 10))
        skew == p.inventory_skew
        bid_offset == FracMul(level_offset, FracAdd(<<1, 1>>, skew))
        ask_offset == FracMul(level_offset, FracAdd(<<1, 1>>, <<-skew[1], skew[2]>>))
        raw_bid == FracAdd(<<p.midpoint, 1>>, <<-bid_offset[1], bid_offset[2]>>)
        raw_ask == FracAdd(<<p.midpoint, 1>>, ask_offset)
        bid_price == align_to_tick(raw_bid[1], raw_bid[2], p.tick_size)
        ask_price == align_to_tick(raw_ask[1], raw_ask[2], p.tick_size)
    IN  IF bid_price <= 0 \/ ask_price >= ONE THEN <<>>
        ELSE IF bid_price >= ask_price THEN <<>>
        ELSE << [bid_price |-> bid_price, ask_price |-> ask_price,
                 size |-> p.order_size, level |-> level] >>

RECURSIVE QuotesFrom(_, _)
QuotesFrom(p, level) ==
    IF level >= p.num_levels THEN <<>>
    ELSE QuoteOfLevel(p, level) \o QuotesFrom(p, level + 1)

generate_quotes(p) == QuotesFrom(p, 0)

\* --------------------------------------------------------------------------
\* orders.rs

ActiveStatus == {"Open", "PartiallyFilled"}

\* The signed orders place_quotes builds for one quote, in order.
OrdersOfQuoteMutantKeepAll(yes_id, no_id, q) ==
    << [token_id |-> yes_id, side |-> "Buy", price |-> q.bid_price, size |-> q.size],
       [token_id |-> yes_id, side |-> "Sell", price |-> q.ask_price, size |-> q.size],
       [token_id |-> no_id, side |-> "Buy", price |-> ONE - q.ask_price, size |-> q.size],
       [token_id |-> no_id, side |-> "Sell", price |-> ONE - q.bid_price, size |-> q.size] >>

OrdersOfQuote(yes_id, no_id, q) ==
    LET no_bid_price == ONE - q.ask_price
        no_ask_price == ONE - q.bid_price
    IN  << [token_id |-> yes_id, side |-> "Buy", price |-> q.bid_price, size |-> q.size],
           [token_id |-> yes_id, side |-> "Sell", price |-> q.ask_price, size |-> q.size] >>
        \o (IF no_bid_price > 0
            THEN << [token_id |-> no_id, side |-> "Buy", price |-> no_bid_price, size |-> q.size] >>
            ELSE <<>>)
        \o (IF no_ask_price < ONE
            THEN << [token_id |-> no_id, side |-> "Sell", price |-> no_ask_price, size |-> q.size] >>
            ELSE <<>>)

RECURSIVE BuildOrders(_, _, _)
\* order_metadata of place_quotes: the orders of every quote.
BuildOrders(yes_id, no_id, quotes) ==
    IF quotes = <<>> THEN <<>>
    ELSE OrdersOfQuote(yes_id, no_id, Head(quotes))
         \o BuildOrders(yes_id, no_id, Tail(quotes))

\* Orders per post_orders call.
PostBatchMax == 15

\* The next batch of place_quotes: remaining.drain(..min(len, 15)).
NextBatch(remaining) == SubSeq(remaining, 1, Min(Len(remaining), PostBatchMax))

AfterBatch(remaining) ==
    SubSeq(remaining, Min(Len(remaining), PostBatchMax) + 1, Len(remaining))

\* The TrackedOrder of an accepted order.
NewTracked(id, meta) ==
    [order_id |-> id, token_id |-> meta.token_id, side |-> meta.side,
     price |-> meta.price, size |-> meta.size, filled |-> 0, status |-> "Open"]

\* reconcile_orders: every non-terminal tracked order is queried; `fails` are the
\* positions whose query errs (the order is left as it was).
ReconcileOneMutantStrict(o, ex, failed) ==
    IF o.status = "Filled" \/ o.status = "Cancelled" THEN o
    ELSE IF failed THEN o
    ELSE LET matched == ex[o.order_id].size_matched
             orig_size == ex[o.order_id].original_size
         IN  [o EXCEPT !.filled = matched,
                       !.status = IF matched > orig_size THEN "Filled"
                                  ELSE IF matched > 0 THEN "PartiallyFilled"
                                  ELSE @]

ReconcileOneMutantDropFailed(o, ex, failed) ==
    IF o.status = "Filled" \/ o.status = "Cancelled" THEN o
    ELSE IF failed THEN [o EXCEPT !.status = "Cancelled"]
    ELSE LET matched == ex[o.order_id].size_matched
             orig_size == ex[o.order_id].original_size
         IN  [o EXCEPT !.filled = matched,
                       !.status = IF matched >= orig_size THEN "Filled"
                                  ELSE IF matched > 0 THEN "PartiallyFilled"
                                  ELSE @]

ReconcileOne(o, ex, failed) ==
    IF o.status = "Filled" \/ o.status = "Cancelled" THEN o
    ELSE IF failed THEN o
    ELSE LET matched == ex[o.order_id].size_matched
             orig_size == ex[o.order_id].original_size
         IN  [o EXCEPT !.filled = matched,
                       !.status = IF matched >= orig_size THEN "Filled"
                                  ELSE IF matched > 0 THEN "PartiallyFilled"
                                  ELSE @]

reconcile_orders(tracked, ex, fails) ==
    [i \in 1..Len(tracked) |-> ReconcileOne(tracked[i], ex, i \in fails)]

\* The positions reconcile_orders queries.
Queried(tracked) ==
    {i \in 1..Len(tracked) : tracked[i].status \notin {"Filled", "Cancelled"}}

\* The exchange's side of cancel_orders: an open order is cancelled, any other id
\* comes back in not_canceled.
ExchCancel(ex, ids) ==
    [i \in 1..Len(ex) |-> IF i \in ids THEN [ex[i] EXCEPT !.open = FALSE] ELSE ex[i]]

\* cancel_orders (one chunk): Ok(cancelled) with the exchange after it, or the
\* error of the request; an empty list sends nothing.  The result is <<n>> for
\* Ok(n) and <<>> for an error.
cancel_orders(ex, order_ids, ok) ==
    IF order_ids = {} THEN [ex |-> ex, res |-> Some(0)]
    ELSE IF ~ok THEN [ex |-> ex, res |-> None]
    ELSE [ex |-> ExchCancel(ex, order_ids),
          res |-> Some(Cardinality({i \in order_ids : ex[i].open}))]

\* The exchange's side of the bulk cancel_all_orders.
ExchCancelAll(ex) == [i \in 1..Len(ex) |-> [ex[i] EXCEPT !.open = FALSE]]

\* The exchange's side of post_orders: the accepted orders rest on the book.
ExchOrder(owner, meta) ==
    [owner |-> owner, token_id |-> meta.token_id, side |-> meta.side,
     price |-> meta.price,
     original_size |-> meta.size, size_matched |-> 0, open |-> TRUE]

RECURSIVE ExchAccept(_, _, _)
ExchAccept(ex, owner, metas) ==
    IF metas = <<>> THEN ex
    ELSE ExchAccept(Append(ex, ExchOrder(owner, Head(metas))), owner, Tail(metas))

RECURSIVE TrackAccepted(_, _)
\* The TrackedOrders of the accepted orders of a batch; ids follow `first`.
TrackAccepted(first, metas) ==
    IF metas = <<>> THEN <<>>
    ELSE <<NewTracked(first + 1, Head(metas))>> \o TrackAccepted(first + 1, Tail(metas))

\* --------------------------------------------------------------------------
\* engine.rs

\* QuoteEngine::new
NewEngine(market, config, dry_run) ==
    [market |-> market, config |-> config, dry_run |-> dry_run,
     last_midpoint |-> None, last_requote |-> None,
     current_quotes |-> <<>>, tracked_orders |-> <<>>,
     inventory_yes |-> 0, inventory_no |-> 0,
     total_bought_value |-> 0, total_sold_value |-> 0,
     ws_connected |-> FALSE]

\* should_requote at time t.
should_requoteMutantInclusive(e, new_midpoint, t) ==
    LET threshold == CentsToPrice(e.config.requote_threshold_cents)
    IN  IF e.last_midpoint = None THEN TRUE
        ELSE IF FracLeq(threshold, <<Abs(new_midpoint - e.last_midpoint[1]), 1>>) THEN TRUE
        ELSE IF e.last_requote # None /\ t - e.last_requote[1] > e.config.requote_interval_secs
             THEN TRUE
        ELSE FALSE

should_requote(e, new_midpoint, t) ==
    LET threshold == CentsToPrice(e.config.requote_threshold_cents)
    IN  IF e.last_midpoint = None THEN TRUE
        ELSE IF ~FracLeq(<<Abs(new_midpoint - e.last_midpoint[1]), 1>>, threshold) THEN TRUE
        ELSE IF e.last_requote # None /\ t - e.last_requote[1] > e.config.requote_interval_secs
             THEN TRUE
        ELSE FALSE

\* The skew of compute_quotes: (net / cap).min(0.5).max(-0.5), or 0 without a cap.
Skew(e) ==
    LET net_inventory == e.inventory_yes - e.inventory_no
        cap == e.config.inventory_cap
    IN  IF cap > 0
        THEN IF 2 * net_inventory > cap THEN <<1, 2>>
             ELSE IF 2 * net_inventory < -cap THEN <<-1, 2>>
             ELSE Frac(net_inventory, cap)
        ELSE <<0, 1>>

compute_quotes(e, midpoint) ==
    generate_quotes(
        [midpoint |-> midpoint,
         base_offset_cents |-> e.config.base_offset_cents,
         min_offset_cents |-> e.config.min_offset_cents,
         \* Decimal::from_str(tick_size).unwrap_or(dec!(0.01))
         tick_size |-> IF e.market.tick_size = None THEN ONE \div 100
                       ELSE e.market.tick_size[1],
         order_size |-> e.config.order_size,
         num_levels |-> e.config.num_levels,
         fee_rate_bps |-> e.market.fee_rate_bps,
         inventory_skew |-> Skew(e)])

\* One order's contribution in update_inventory_from_fills.
ApplyFill(e, o) ==
    IF o.filled <= 0 THEN e
    ELSE LET is_yes == o.token_id = e.market.token_yes_id
         IN  IF o.side = "Buy"
             THEN IF is_yes
                  THEN [e EXCEPT !.inventory_yes = @ + o.filled,
                                 !.total_bought_value = @ + o.filled * o.price]
                  ELSE [e EXCEPT !.inventory_no = @ + o.filled,
                                 !.total_bought_value = @ + o.filled * o.price]
             ELSE IF is_yes
                  THEN [e EXCEPT !.inventory_yes = @ - o.filled,
                                 !.total_sold_value = @ + o.filled * o.price]
                  ELSE [e EXCEPT !.inventory_no = @ - o.filled,
                                 !.total_sold_value = @ + o.filled * o.price]

RECURSIVE ApplyFills(_, _)
ApplyFills(e, orders) ==
    IF orders = <<>> THEN e ELSE ApplyFills(ApplyFill(e, Head(orders)), Tail(orders))

\* update_inventory_from_fills: every tracked order's filled is added, on every pass.
update_inventory_from_fills(e) == ApplyFills(e, e.tracked_orders)

\* tick_dry_run once fetch_midpoint has returned Ok(midpoint), at time t.
tick_dry_runMutantTrack(e, midpoint, t) ==
    IF ~should_requote(e, midpoint, t) THEN e
    ELSE [e EXCEPT !.last_midpoint = Some(midpoint),
                   !.last_requote = Some(t),
                   !.current_quotes = compute_quotes(e, midpoint),
                   !.tracked_orders =
                       TrackAccepted(0, BuildOrders(e.market.token_yes_id, e.market.token_no_id,
                                                    compute_quotes(e, midpoint)))]

tick_dry_run(e, midpoint, t) ==
    IF ~should_requote(e, midpoint, t) THEN e
    ELSE [e EXCEPT !.last_midpoint = Some(midpoint),
                   !.last_requote = Some(t),
                   !.current_quotes = compute_quotes(e, midpoint)]

\* The ids tick_live, cancel_all and the websocket requote cancel.
RECURSIVE ActiveIds(_)
ActiveIds(tracked) ==
    IF tracked = <<>> THEN {}
    ELSE (IF Head(tracked).status \in ActiveStatus THEN {Head(tracked).order_id} ELSE {})
         \cup ActiveIds(Tail(tracked))

\* --------------------------------------------------------------------------
\* State

VARIABLES
    mode,                 \* the program that runs: "rest", "ws", "dry", "dryws", "mgr", "limiter"
    engines,              \* condition id -> QuoteEngine (cmd_run has one engine_inst)
    exch,                 \* the exchange's orders of this account; an order's id is its index
    now,                  \* the clock (Instant::now), in seconds
    pc,                   \* where the control task is: [at, eng]
    loc,                  \* the locals of the requote in flight
    sleep_until,          \* when the sleep in flight ends
    chan,                 \* the websocket event channel
    feed,                 \* the market subscription: "up", "down", "off"
    limiter,              \* MarketManager.rate_limiter
    capital_allocations,  \* MarketManager.capital_allocations
    queue,                \* tick_all: the condition ids still to visit
    call,                 \* what the manager call in progress (or the last one) did
    scan,                 \* the last completed rescan: its raw markets and its ranked ids
    sent,                 \* the kinds of request sent to the exchange so far
    submitted,            \* the times of the submissions of the last BurstWindow seconds
    killed,               \* the kill switch has triggered in some tick_all call
    tasks,                \* the WsManager: its shutdown flag and its subscription tasks
    budget                \* what the environment may still do

vars == <<mode, engines, exch, now, pc, loc, sleep_until, chan, feed, limiter,
          capital_allocations, queue, call, scan, sent, submitted, killed, tasks, budget>>

\* The locals of tick_live / of the websocket requote while it is suspended.
LocIdle ==
    [path |-> "none", midpoint |-> 0, quotes |-> <<>>, remaining |-> <<>>,
     placed |-> <<>>, ids |-> {}, cancel |-> "none", cancel_err_reported |-> FALSE]

Idle(at) == [at |-> at, eng |-> "-"]

\* --------------------------------------------------------------------------
\* tick_live and the websocket requote, cut at their suspension points.  Each
\* operator gives the configuration the requote is in when it next suspends or
\* returns: the engine, the exchange, the position, the locals, the result
\* ("none" while it is suspended) and the requests it sent on the way.

Step(e, ex, at, l, res, req, posted) ==
    [e |-> e, ex |-> ex, at |-> at, loc |-> l, res |-> res, req |-> req, posted |-> posted]

\* tick_live lines 213-216 / main.rs lines 251-253: the new orders are stored.
Commit(e, ex, l, new_orders, t, req, posted) ==
    LET e1 == IF l.path = "rest"
              THEN [e EXCEPT !.tracked_orders = new_orders,
                             !.last_midpoint = Some(l.midpoint),
                             !.last_requote = Some(t),
                             !.current_quotes = l.quotes]
              ELSE [e EXCEPT !.tracked_orders = new_orders,
                             !.current_quotes = l.quotes,
                             !.last_requote = Some(t)]
    IN  Step(e1, ex, "ret", LocIdle, "Ok", req, posted)

\* place_quotes up to its first post_orders call.
StartPlace(e, ex, l, t, req) ==
    LET metas == BuildOrders(e.market.token_yes_id, e.market.token_no_id, l.quotes)
    IN  IF metas = <<>>
        THEN Commit(e, ex, l, <<>>, t, req, 0)
        ELSE Step(e, ex, "post", [l EXCEPT !.remaining = metas, !.placed = <<>>],
                  "none", req \cup {"post"}, 0)

\* A tick_live that requotes whatever should_requote says.
DecideMutantAlways(e, ex, mid, t) ==
    LET stale_ids == ActiveIds(e.tracked_orders)
        l == [LocIdle EXCEPT !.path = "rest", !.midpoint = mid]
    IN  IF stale_ids # {}
        THEN Step(e, ex, "cancel", [l EXCEPT !.ids = stale_ids, !.cancel = "pending"],
                  "none", {"cancel"}, 0)
        ELSE StartPlace(e, ex, [l EXCEPT !.quotes = compute_quotes(e, mid)], t, {})

\* tick_live from should_requote to its next suspension.
Decide(e, ex, mid, t) ==
    IF ~should_requote(e, mid, t)
    THEN Step(e, ex, "ret", LocIdle, "Ok", {}, 0)
    ELSE LET stale_ids == ActiveIds(e.tracked_orders)
             l == [LocIdle EXCEPT !.path = "rest", !.midpoint = mid]
         IN  IF stale_ids # {}
             THEN Step(e, ex, "cancel", [l EXCEPT !.ids = stale_ids, !.cancel = "pending"],
                       "none", {"cancel"}, 0)
             ELSE StartPlace(e, ex, [l EXCEPT !.quotes = compute_quotes(e, mid)], t, {})

\* fetch_midpoint has returned.
AfterFetch(e, ex, ok, mid, t) ==
    IF ~ok THEN Step(e, ex, "ret", LocIdle, "Err_midpoint", {}, 0)
    ELSE IF e.tracked_orders # <<>>
    THEN Step(e, ex, "reconcile", [LocIdle EXCEPT !.path = "rest", !.midpoint = mid],
              "none", {"order"}, 0)
    ELSE Decide(e, ex, mid, t)

\* reconcile_orders has returned; update_inventory_from_fills follows at once.
AfterReconcileMutantNoUpdate(e, ex, l, fails, t) ==
    Decide([e EXCEPT !.tracked_orders = reconcile_orders(@, ex, fails)], ex, l.midpoint, t)

AfterReconcile(e, ex, l, fails, t) ==
    LET e1 == [e EXCEPT !.tracked_orders = reconcile_orders(@, ex, fails)]
    IN  Decide(update_inventory_from_fills(e1), ex, l.midpoint, t)

\* cancel_orders has returned (tick_live line 198, main.rs line 247).
AfterCancel(e, ex, l, ok, t) ==
    IF l.path = "rest"
    THEN IF ok
         THEN StartPlace(e, ExchCancel(ex, l.ids),
                         [l EXCEPT !.cancel = "ok", !.quotes = compute_quotes(e, l.midpoint)],
                         t, {})
         ELSE \* the ? hands the error to the caller of tick_live
              Step(e, ex, "ret", LocIdle, "Err_cancel", {}, 0)
    ELSE \* let _ = cancel_orders(..).await: the result is dropped
         StartPlace(e, IF ok THEN ExchCancel(ex, l.ids) ELSE ex,
                    [l EXCEPT !.cancel = IF ok THEN "ok" ELSE "err"], t, {})

\* post_orders has returned for the next batch; `rejected` are the positions of
\* the batch the exchange refused.
AfterPost(c, e, ex, l, ok, rejected, t) ==
    LET batch == NextBatch(l.remaining)
        rest == AfterBatch(l.remaining)
        accepted == SelectSeqIdx(batch, 1, rejected)
        ex1 == ExchAccept(ex, c, accepted)
        tracked == l.placed \o TrackAccepted(Len(ex), accepted)
    IN  IF ~ok
        THEN \* the orders of the earlier batches are dropped with `tracked`
             Step(e, ex, "ret", LocIdle, "Err_post", {}, 0)
        ELSE IF rest = <<>>
        THEN Commit(e, ex1, l, tracked, t, {}, Len(batch))
        ELSE Step(e, ex1, "post", [l EXCEPT !.remaining = rest, !.placed = tracked],
                  "none", {"post"}, Len(batch))

\* --------------------------------------------------------------------------
\* Configuration (config.rs defaults) and the inputs of the model

\* StrategyConfig::default(); cents in tenths of a cent.
StrategyDefault ==
    [base_offset_cents |-> 10, min_offset_cents |-> 5,
     requote_interval_secs |-> 30, requote_threshold_cents |-> 5,
     order_size |-> 500, num_levels |-> 2, inventory_cap |-> 5000]

\* The strategy cmd_run is given: the defaults, with one level.
RunStrategy == [StrategyDefault EXCEPT !.num_levels = 1]

\* A market as scan_markets reports it (the fields the engine reads).
Market(c) ==
    [condition_id |-> c, token_yes_id |-> <<c, "yes">>, token_no_id |-> <<c, "no">>,
     tick_size |-> Some(ONE \div 100), fee_rate_bps |-> None]

\* The midpoints the exchange may report.
Mids == {HALF, ONE \div 5}

\* By how much the clock may move in one step: of the programs, and of the
\* rate limiter on its own (around its windows of 10 and 600 seconds).
TimeSteps == {30}

LimiterTimeSteps == {5, 590}

\* Bounds of the environment.
MaxTicks == 3

MaxFills == 1

MaxFaults == 1

MaxRejects == 1

MaxAdvances == 2

MaxEvents == 2

MaxTickAlls == 4

MaxRescans == 2

MaxRecords == 2

\* The largest count passed to can_place and record.
MaxCount == 2

\* An order fills in lots of original_size / FillLots.
FillLots == 2

Budget0 ==
    [ticks |-> MaxTicks, fills |-> MaxFills, faults |-> MaxFaults,
     rejects |-> MaxRejects, advances |-> MaxAdvances, events |-> MaxEvents,
     tick_alls |-> MaxTickAlls, rescans |-> MaxRescans, records |-> MaxRecords]

\* The sets of failing positions the environment may choose among n positions.
FailChoices(S, left) == {F \in SUBSET S : Cardinality(F) <= left}

CallNone ==
    [op |-> "none", res |-> "none", kill |-> FALSE, ticked |-> {}, placed |-> 0,
     pre |-> <<>>, arg |-> 0, t |-> 0]

\* RateLimiter::record
record(l, count, t) ==
    [l EXCEPT !.order_timestamps = @ \o [i \in 1..count |-> t]]

\* RiskConfig and MarketsConfig defaults (dollars).
RiskDefault ==
    [max_total_capital |-> 2000, max_per_market |-> 500, kill_switch_loss |-> 100]

MarketsDefault == [max_markets |-> 20, min_reward_daily |-> 5]

\* --------------------------------------------------------------------------
\* scanner.rs

FracMin(x, y) == IF FracLeq(x, y) THEN x ELSE y

\* The score of scan_markets (lines 84-90), a fraction.
Score(liquidity, reward_daily) ==
    IF liquidity > 0 THEN Frac(reward_daily * 10000, liquidity)
    ELSE IF reward_daily > 0 THEN <<99999, 1>>
    ELSE <<0, 1>>

\* The MarketInfo scan_markets builds from one market of the Gamma response.
MarketInfo(g) ==
    [condition_id |-> g.condition_id[1],
     token_yes_id |-> <<g.condition_id[1], "yes">>,
     token_no_id |-> <<g.condition_id[1], "no">>,
     tick_size |-> Some(ONE \div 100), fee_rate_bps |-> None,
     active |-> TRUE, closed |-> FALSE,
     liquidity |-> g.liquidity, reward_daily_estimate |-> g.competitive,
     score |-> Score(g.liquidity, g.competitive)]

\* The markets scan_markets keeps: a condition id, active, not closed, two tokens.
Eligible(g) ==
    /\ g.condition_id # None
    /\ (IF g.active = None THEN FALSE ELSE g.active[1])
    /\ ~(IF g.closed = None THEN TRUE ELSE g.closed[1])
    /\ g.clob_token_ids >= 2

\* results.sort_by(score descending): a stable sort.
RECURSIVE InsertByScore(_, _)
InsertByScore(m, sorted) ==
    IF sorted = <<>> THEN <<m>>
    ELSE IF FracLeq(m.score, Head(sorted).score)
         THEN <<Head(sorted)>> \o InsertByScore(m, Tail(sorted))
         ELSE <<m>> \o sorted

RECURSIVE SortByScore(_)
SortByScore(ms) ==
    IF ms = <<>> THEN <<>>
    ELSE InsertByScore(ms[Len(ms)], SortByScore(SubSeq(ms, 1, Len(ms) - 1)))

RECURSIVE EligibleInfos(_)
EligibleInfos(resp) ==
    IF resp = <<>> THEN <<>>
    ELSE (IF Eligible(Head(resp)) THEN <<MarketInfo(Head(resp))>> ELSE <<>>)
         \o EligibleInfos(Tail(resp))

scan_markets(resp) == SortByScore(EligibleInfos(resp))

Take(s, n) == SubSeq(s, 1, Min(n, Len(s)))

rank_markets(markets, min_daily_reward, max_count) ==
    Take(SelectSeq(markets, LAMBDA m : m.reward_daily_estimate >= min_daily_reward), max_count)

\* --------------------------------------------------------------------------
\* risk.rs

\* MarketInventory::net_position: YES - NO.
net_position(inv) == inv.yes_tokens - inv.no_tokens

\* QuoteSideDecision: <<"Normal">>, <<"Paused">> or <<"Adjusted", multiplier>>,
\* the offset_multiplier a fraction.
Adjusted(offset_multiplier) == <<"Adjusted", offset_multiplier>>

\* inventory_check: the (bid, ask) decisions for an inventory.
inventory_checkMutantStrict(inventory, strategy) ==
    LET net == net_position(inventory)
        cap == strategy.inventory_cap
    IN  IF cap = 0 THEN << <<"Normal">>, <<"Normal">> >>
        ELSE LET ratio == IF cap > 0 THEN Frac(net, cap) ELSE Frac(-net, -cap)
                 abs == <<Abs(ratio[1]), ratio[2]>>
             IN  IF ~FracLeq(ratio, <<1, 1>>)
                 THEN << <<"Paused">>, Adjusted(<<1, 2>>) >>
                 ELSE IF ~FracLeq(<<-1, 1>>, ratio)
                 THEN << Adjusted(<<1, 2>>), <<"Paused">> >>
                 ELSE IF ~FracLeq(ratio, <<1, 2>>)
                 THEN LET multiplier == FracAdd(<<1, 1>>, ratio)
                      IN  << Adjusted(multiplier), Adjusted(<<multiplier[2], multiplier[1]>>) >>
                 ELSE IF ~FracLeq(<<-1, 2>>, ratio)
                 THEN LET multiplier == FracAdd(<<1, 1>>, abs)
                      IN  << Adjusted(<<multiplier[2], multiplier[1]>>), Adjusted(multiplier) >>
                 ELSE << <<"Normal">>, <<"Normal">> >>

inventory_check(inventory, strategy) ==
    LET net == net_position(inventory)
        cap == strategy.inventory_cap
    IN  IF cap = 0 THEN << <<"Normal">>, <<"Normal">> >>
        ELSE LET ratio == IF cap > 0 THEN Frac(net, cap) ELSE Frac(-net, -cap)
                 abs == <<Abs(ratio[1]), ratio[2]>>
             IN  IF FracLeq(<<1, 1>>, ratio)
                 THEN \* at or above the YES cap
                      << <<"Paused">>, Adjusted(<<1, 2>>) >>
                 ELSE IF FracLeq(ratio, <<-1, 1>>)
                 THEN \* at or below the NO cap
                      << Adjusted(<<1, 2>>), <<"Paused">> >>
                 ELSE IF ~FracLeq(ratio, <<1, 2>>)
                 THEN LET multiplier == FracAdd(<<1, 1>>, ratio)
                      IN  << Adjusted(multiplier), Adjusted(<<multiplier[2], multiplier[1]>>) >>
                 ELSE IF ~FracLeq(<<-1, 2>>, ratio)
                 THEN LET multiplier == FracAdd(<<1, 1>>, abs)
                      IN  << Adjusted(<<multiplier[2], multiplier[1]>>), Adjusted(multiplier) >>
                 ELSE << <<"Normal">>, <<"Normal">> >>

\* MarketInventory::unrealized_pnl of an engine's inventory, in 1/ONE dollars.
unrealized_pnl(e, midpoint) ==
    e.inventory_yes * midpoint + e.inventory_no * (ONE - midpoint)
        + e.total_sold_value - e.total_bought_value

RECURSIVE TotalPnl(_, _)
TotalPnl(engs, S) ==
    IF S = {} THEN 0
    ELSE LET c == CHOOSE x \in S : TRUE
             \* tick_all line 241: e.last_midpoint.unwrap_or(dec!(0.5))
             mid == IF engs[c].last_midpoint = None THEN HALF ELSE engs[c].last_midpoint[1]
         IN  unrealized_pnl(engs[c], mid) + TotalPnl(engs, S \ {c})

should_kill_switchMutantInclusive(engs, risk) ==
    TotalPnl(engs, DOMAIN engs) <= -(risk.kill_switch_loss * ONE)

should_kill_switch(engs, risk) ==
    TotalPnl(engs, DOMAIN engs) < -(risk.kill_switch_loss * ONE)

RECURSIVE SumScores(_)
SumScores(scores) ==
    IF scores = <<>> THEN <<0, 1>> ELSE FracAdd(Head(scores)[2], SumScores(Tail(scores)))

\* allocate_capital: (id, score) pairs to (id, allocation) pairs.
allocate_capitalMutantNoCap(market_scores, total_capital, max_per_market) ==
    IF market_scores = <<>> THEN <<>>
    ELSE [i \in 1..Len(market_scores) |->
             <<market_scores[i][1], Frac(total_capital, Len(market_scores))>>]

allocate_capital(market_scores, total_capital, max_per_market) ==
    IF market_scores = <<>> THEN <<>>
    ELSE LET total_score == SumScores(market_scores) IN
         IF total_score[1] = 0
         THEN LET per_market == FracMin(Frac(total_capital, Len(market_scores)),
                                        <<max_per_market, 1>>)
              IN  [i \in 1..Len(market_scores) |-> <<market_scores[i][1], per_market>>]
         ELSE [i \in 1..Len(market_scores) |->
                 LET fraction == Frac(market_scores[i][2][1] * total_score[2],
                                      market_scores[i][2][2] * total_score[1])
                 IN  <<market_scores[i][1],
                       FracMin(FracMul(<<total_capital, 1>>, fraction), <<max_per_market, 1>>)>>]

\* --------------------------------------------------------------------------
\* manager.rs

\* RateLimiter: the windows of can_place.
BurstWindow == 10

SustainedWindow == 600

NewLimiter(burst, sustained) ==
    [order_timestamps |-> <<>>, burst_limit |-> burst, sustained_limit |-> sustained]

\* RateLimiter::can_place at time t: the answer and the limiter after retain.
can_placeMutantInclusive(l, count, t) ==
    LET kept == SelectSeq(l.order_timestamps, LAMBDA x : t - x < SustainedWindow)
        burst_count == Len(SelectSeq(kept, LAMBDA x : t - x < BurstWindow))
    IN  [ok |-> ~(burst_count + count >= l.burst_limit)
                /\ ~(Len(kept) + count > l.sustained_limit),
         l |-> [l EXCEPT !.order_timestamps = kept]]

can_place(l, count, t) ==
    LET kept == SelectSeq(l.order_timestamps, LAMBDA x : t - x < SustainedWindow)
        burst_count == Len(SelectSeq(kept, LAMBDA x : t - x < BurstWindow))
    IN  [ok |-> ~(burst_count + count > l.burst_limit)
                /\ ~(Len(kept) + count > l.sustained_limit),
         l |-> [l EXCEPT !.order_timestamps = kept]]

\* The index of the first market of `markets` with condition id c.
FirstOf(markets, c) == CHOOSE i \in 1..Len(markets) :
    /\ markets[i].condition_id = c
    /\ \A j \in 1..(i - 1) : markets[j].condition_id # c

\* initialize_markets: the engine map and the capital allocations after it.
initialize_markets(engs, strategy, risk, markets) ==
    LET alloc == allocate_capital([i \in 1..Len(markets) |->
                                      <<markets[i].condition_id, markets[i].score>>],
                                  risk.max_total_capital, risk.max_per_market)
        ids == {markets[i].condition_id : i \in 1..Len(markets)}
        \* collecting into the HashMap keeps the last pair of an id
        allocations == [c \in ids |->
            alloc[CHOOSE i \in 1..Len(alloc) :
                     alloc[i][1] = c /\ \A j \in (i + 1)..Len(alloc) : alloc[j][1] # c][2]]
        sized(c) ==
            IF allocations[c][1] > 0 /\ risk.max_per_market > 0
            THEN [strategy EXCEPT !.order_size =
                     Max(Round(strategy.order_size * allocations[c][1],
                               allocations[c][2] * risk.max_per_market), 1)]
            ELSE strategy
    IN  [engines |-> [c \in DOMAIN engs \cup ids |->
                        IF c \in DOMAIN engs THEN engs[c]
                        ELSE NewEngine(markets[FirstOf(markets, c)], sized(c), FALSE)],
         capital_allocations |-> allocations]

\* portfolio_stats (manager.rs 311-346): the sums over the engines; an engine
\* without last_midpoint adds nothing to the PnL, an engine with a non-empty
\* tracked_orders counts as active.
RECURSIVE StatsOver(_, _)
StatsOver(engs, S) ==
    IF S = {}
    THEN [total_capital_deployed |-> 0, total_yes_tokens |-> 0, total_no_tokens |-> 0,
          total_unrealized_pnl |-> 0, active_markets |-> 0]
    ELSE LET c == CHOOSE x \in S : TRUE
             engine == engs[c]
             rest == StatsOver(engs, S \ {c})
         IN  [total_capital_deployed |->
                  rest.total_capital_deployed
                      + engine.total_bought_value - engine.total_sold_value,
              total_yes_tokens |-> rest.total_yes_tokens + engine.inventory_yes,
              total_no_tokens |-> rest.total_no_tokens + engine.inventory_no,
              total_unrealized_pnl |->
                  rest.total_unrealized_pnl
                      + (IF engine.last_midpoint # None
                         THEN unrealized_pnl(engine, engine.last_midpoint[1]) ELSE 0),
              active_markets |->
                  rest.active_markets + (IF engine.tracked_orders # <<>> THEN 1 ELSE 0)]

portfolio_stats(engs) ==
    StatsOver(engs, DOMAIN engs) @@ [total_markets |-> Cardinality(DOMAIN engs)]

remove_stale_marketsMutantKeep(engs, active_ids) == engs

remove_stale_markets(engs, active_ids) ==
    [c \in {d \in DOMAIN engs : d \in active_ids} |-> engs[c]]

\* cancel_all_markets after the bulk cancel returned Ok: every engine's
\* tracked_orders is cleared.
clear_trackedMutantKeep(engs) == engs

clear_tracked(engs) == [c \in DOMAIN engs |-> [engs[c] EXCEPT !.tracked_orders = <<>>]]

\* --------------------------------------------------------------------------
\* A requote step applied to the state; a returning tick goes back to its caller.

\* tick_all after tick_live returned (manager.rs 275-287): an Ok tick records
\* tracked_orders.len(), an error is logged only.
RecordTickMutantAlways(l, k, t) == record(l, Len(k.e.tracked_orders), t)

RecordTick(l, k, t) ==
    IF k.res = "Ok" THEN record(l, Len(k.e.tracked_orders), t) ELSE l

Apply(c, k, faults, rejects) ==
    /\ engines' = [engines EXCEPT ![c] = k.e]
    /\ exch' = k.ex
    /\ sent' = sent \cup k.req
    /\ submitted' = submitted \o [i \in 1..k.posted |-> now]
    /\ budget' = [budget EXCEPT !.faults = @ - faults, !.rejects = @ - rejects]
    /\ IF k.res = "none"
       THEN /\ pc' = [at |-> k.at, eng |-> c]
            /\ loc' = k.loc
            /\ call' = [call EXCEPT !.placed = @ + k.posted]
            /\ UNCHANGED <<sleep_until, limiter>>
       ELSE /\ loc' = LocIdle
            /\ call' = [call EXCEPT !.placed = @ + k.posted,
                                    !.res = IF mode \in {"rest", "ws"} THEN k.res ELSE @,
                                    !.ticked = @ \cup {c}]
            /\ CASE mode = "rest" ->
                      \* main.rs 279-285: the error is logged, then the loop sleeps
                      /\ pc' = Idle("sleep")
                      /\ sleep_until' = now + k.e.config.requote_interval_secs
                      /\ UNCHANGED limiter
                 [] mode = "ws" ->
                      \* main.rs 236-265: back to the select
                      /\ pc' = Idle("select")
                      /\ sleep_until' = now + k.e.config.requote_interval_secs
                      /\ UNCHANGED limiter
                 [] OTHER ->
                      \* manager.rs 275-288: the loop goes on with the next engine
                      /\ pc' = Idle("next")
                      /\ limiter' = RecordTick(limiter, k, now)
                      /\ UNCHANGED sleep_until
    /\ UNCHANGED <<mode, now, chan, feed, capital_allocations, queue, scan, killed, tasks>>

\* fetch_midpoint returns.
TickFetched ==
    /\ pc.at = "fetch"
    /\ LET c == pc.eng IN
       \/ \E mid \in Mids : Apply(c, AfterFetch(engines[c], exch, TRUE, mid, now), 0, 0)
       \/ /\ budget.faults > 0
          /\ Apply(c, AfterFetch(engines[c], exch, FALSE, 0, now), 1, 0)

\* reconcile_orders returns; some of its queries may have failed.
TickReconciled ==
    /\ pc.at = "reconcile"
    /\ LET c == pc.eng IN
       \E fails \in FailChoices(Queried(engines[c].tracked_orders), budget.faults) :
          Apply(c, AfterReconcile(engines[c], exch, loc, fails, now), Cardinality(fails), 0)

\* cancel_orders returns.
TickCancelled ==
    /\ pc.at = "cancel"
    /\ LET c == pc.eng IN
       \/ Apply(c, AfterCancel(engines[c], exch, loc, TRUE, now), 0, 0)
       \/ /\ budget.faults > 0
          /\ Apply(c, AfterCancel(engines[c], exch, loc, FALSE, now), 1, 0)

\* post_orders returns for one batch.
TickPosted ==
    /\ pc.at = "post"
    /\ LET c == pc.eng IN
       \/ \E rejected \in FailChoices(1..Len(NextBatch(loc.remaining)), budget.rejects) :
             Apply(c, AfterPost(c, engines[c], exch, loc, TRUE, rejected, now),
                   0, Cardinality(rejected))
       \/ /\ budget.faults > 0
          /\ Apply(c, AfterPost(c, engines[c], exch, loc, FALSE, {}, now), 1, 0)

\* --------------------------------------------------------------------------
\* The environment

\* The exchange matches part of a resting order.
ExchangeFill ==
    /\ budget.fills > 0
    /\ pc.at # "stopped"
    /\ \E id \in 1..Len(exch) :
          /\ exch[id].open
          /\ LET lot == Max(1, exch[id].original_size \div FillLots)
                 m == Min(exch[id].original_size, exch[id].size_matched + lot)
             IN  exch' = [exch EXCEPT ![id].size_matched = m,
                                      ![id].open = m < exch[id].original_size]
    /\ budget' = [budget EXCEPT !.fills = @ - 1]
    /\ UNCHANGED <<mode, engines, now, pc, loc, sleep_until, chan, feed, limiter,
                   capital_allocations, queue, call, scan, sent, submitted, killed, tasks>>

\* Time passes.
Advance ==
    /\ budget.advances > 0
    /\ pc.at # "stopped"
    /\ \E d \in (IF mode = "limiter" THEN LimiterTimeSteps ELSE TimeSteps) :
          /\ now' = now + d
          \* `submitted` keeps the submissions of the last BurstWindow seconds
          /\ submitted' = SelectSeq(submitted, LAMBDA x : now + d - x < BurstWindow)
    /\ budget' = [budget EXCEPT !.advances = @ - 1]
    /\ UNCHANGED <<mode, engines, exch, pc, loc, sleep_until, chan, feed, limiter,
                   capital_allocations, queue, call, scan, sent, killed, tasks>>

\* --------------------------------------------------------------------------
\* WsManager (ws.rs 36-109)

\* A WsManager whose tasks are not followed one by one: the run-loop
\* specifications see its market task through `feed`.
NoTasks == [shutdown |-> FALSE, task |-> <<>>]

\* WsManager::shutdown: shutdown_tx.send(true).
shutdown(w) == [w EXCEPT !.shutdown = TRUE]

\* --------------------------------------------------------------------------
\* The websocket feed as the run loop sees it (ws.rs 60-73, 111-160)

\* mpsc::channel(256)
ChanCapacity == 256

\* The market subscription delivers a midpoint.
FeedMidpoint ==
    /\ feed = "up"
    /\ budget.events > 0
    /\ Len(chan) < ChanCapacity
    /\ \E m \in Mids : chan' = Append(chan, [type |-> "MidpointUpdate", midpoint |-> m])
    /\ budget' = [budget EXCEPT !.events = @ - 1]
    /\ UNCHANGED <<mode, engines, exch, now, pc, loc, sleep_until, feed, limiter,
                   capital_allocations, queue, call, scan, sent, submitted, killed, tasks>>

\* The subscription errs: the task sends Disconnected and sleeps.
FeedError ==
    /\ feed = "up"
    /\ budget.events > 0
    /\ Len(chan) < ChanCapacity
    /\ chan' = Append(chan, [type |-> "Disconnected", midpoint |-> 0])
    /\ feed' = "down"
    /\ budget' = [budget EXCEPT !.events = @ - 1]
    /\ UNCHANGED <<mode, engines, exch, now, pc, loc, sleep_until, limiter,
                   capital_allocations, queue, call, scan, sent, submitted, killed, tasks>>

\* The task's sleep ends: it sends Reconnected and subscribes again.
FeedRestart ==
    /\ feed = "down"
    /\ Len(chan) < ChanCapacity
    /\ chan' = Append(chan, [type |-> "Reconnected", midpoint |-> 0])
    /\ feed' = "up"
    /\ UNCHANGED <<mode, engines, exch, now, pc, loc, sleep_until, limiter,
                   capital_allocations, queue, call, scan, sent, submitted, killed, tasks, budget>>

\* QuoteEngine::handle_ws_event: the engine after the event, and whether the
\* caller should requote.  Its code is not among the sources; this is what the
\* specification says of it: a midpoint update is stored and should_requote
\* gives the answer, Disconnected clears ws_connected, Reconnected sets it.
\* The feed of this model delivers no OrderFill event.
handle_ws_event(e, ev, t) ==
    CASE ev.type = "MidpointUpdate" ->
             [e |-> [e EXCEPT !.last_midpoint = Some(ev.midpoint)],
              requote |-> should_requote(e, ev.midpoint, t)]
      [] ev.type = "Disconnected" ->
             [e |-> [e EXCEPT !.ws_connected = FALSE], requote |-> FALSE]
      [] ev.type = "Reconnected" ->
             [e |-> [e EXCEPT !.ws_connected = TRUE], requote |-> FALSE]
      [] OTHER -> [e |-> e, requote |-> FALSE]

\* --------------------------------------------------------------------------
\* cmd_run --live: the pure REST loop (main.rs 268-287) and the websocket
\* driven loop (main.rs 224-267)

\* The REST loop's select polls tick_live, which sends its midpoint request.
RestTickStart ==
    /\ mode = "rest"
    /\ pc.at = "select"
    /\ budget.ticks > 0
    /\ pc' = [at |-> "fetch", eng |-> "A"]
    /\ sent' = sent \cup {"midpoint"}
    /\ budget' = [budget EXCEPT !.ticks = @ - 1]
    /\ call' = [CallNone EXCEPT !.op = "tick_live", !.pre = engines["A"]]
    /\ UNCHANGED <<mode, engines, exch, now, loc, sleep_until, chan, feed, limiter,
                   capital_allocations, queue, scan, submitted, killed, tasks>>

\* tokio::time::sleep(tick_interval) of the REST loop ends.
Wake ==
    /\ pc.at = "sleep"
    /\ now >= sleep_until
    /\ pc' = Idle("select")
    /\ UNCHANGED <<mode, engines, exch, now, loc, sleep_until, chan, feed, limiter,
                   capital_allocations, queue, call, scan, sent, submitted, killed, tasks, budget>>

\* The fallback branch of the websocket loop: the sleep ended while
\* ws_connected is false, and tick_live starts.
WsFallbackTickMutantUnguarded ==
    /\ mode = "ws"
    /\ pc.at = "select"
    /\ now >= sleep_until
    /\ budget.ticks > 0
    /\ pc' = [at |-> "fetch", eng |-> "A"]
    /\ sent' = sent \cup {"midpoint"}
    /\ budget' = [budget EXCEPT !.ticks = @ - 1]
    /\ call' = [CallNone EXCEPT !.op = "tick_live", !.pre = engines["A"]]
    /\ UNCHANGED <<mode, engines, exch, now, loc, sleep_until, chan, feed, limiter,
                   capital_allocations, queue, scan, submitted, killed, tasks>>

WsFallbackTick ==
    /\ mode = "ws"
    /\ pc.at = "select"
    /\ ~engines["A"].ws_connected
    /\ now >= sleep_until
    /\ budget.ticks > 0
    /\ pc' = [at |-> "fetch", eng |-> "A"]
    /\ sent' = sent \cup {"midpoint"}
    /\ budget' = [budget EXCEPT !.ticks = @ - 1]
    /\ call' = [CallNone EXCEPT !.op = "tick_live", !.pre = engines["A"]]
    /\ UNCHANGED <<mode, engines, exch, now, loc, sleep_until, chan, feed, limiter,
                   capital_allocations, queue, scan, submitted, killed, tasks>>

\* The requote of the websocket loop (main.rs 239-257) up to its first await.
WsRequote(e, ex, mid, t) ==
    LET l == [LocIdle EXCEPT !.path = "ws", !.midpoint = mid,
                             !.quotes = compute_quotes(e, mid)]
        stale == ActiveIds(e.tracked_orders)
    IN  IF stale # {}
        THEN Step(e, ex, "cancel", [l EXCEPT !.ids = stale, !.cancel = "pending"],
                  "none", {"cancel"}, 0)
        ELSE StartPlace(e, ex, l, t, {})

\* The websocket loop receives an event.
WsRecv ==
    /\ mode = "ws"
    /\ pc.at = "select"
    /\ chan # <<>>
    /\ LET h == handle_ws_event(engines["A"], Head(chan), now) IN
       IF h.requote /\ h.e.last_midpoint # None
       THEN /\ chan' = Tail(chan)
            /\ LET k == WsRequote(h.e, exch, h.e.last_midpoint[1], now) IN
               /\ engines' = [engines EXCEPT !["A"] = k.e]
               /\ exch' = k.ex
               /\ sent' = sent \cup k.req
               /\ loc' = IF k.res = "none" THEN k.loc ELSE LocIdle
               /\ pc' = IF k.res = "none" THEN [at |-> k.at, eng |-> "A"] ELSE Idle("select")
               /\ sleep_until' = IF k.res = "none" THEN sleep_until
                                 ELSE now + k.e.config.requote_interval_secs
               /\ call' = [CallNone EXCEPT !.op = "ws_requote",
                                           !.res = IF k.res = "none" THEN "none" ELSE k.res]
       ELSE /\ chan' = Tail(chan)
            /\ engines' = [engines EXCEPT !["A"] = h.e]
            /\ sleep_until' = now + h.e.config.requote_interval_secs
            /\ UNCHANGED <<exch, sent, loc, pc, call>>
    /\ UNCHANGED <<mode, now, feed, limiter, capital_allocations, queue, scan,
                   submitted, killed, tasks, budget>>

\* What the exchange has done with the request of a dropped future.
DroppedInFlight(c, rejected, processed) ==
    CASE pc.at = "cancel" /\ processed -> ExchCancel(exch, loc.ids)
      [] pc.at = "post" /\ processed ->
             ExchAccept(exch, c, SelectSeqIdx(NextBatch(loc.remaining), 1, rejected))
      [] OTHER -> exch

\* ctrl_c completes in the select.  In the REST loop tick_live is the other
\* branch of the select and is dropped where it is suspended; in the websocket
\* loop the handlers run to their end, so the signal is seen at the select only.
\* Then cancel_all starts (engine.rs 257-266).
cancel_all_idsMutantEvery(e) ==
    {e.tracked_orders[i].order_id : i \in 1..Len(e.tracked_orders)}

cancel_all_ids(e) == ActiveIds(e.tracked_orders)

CtrlC ==
    /\ \/ mode = "rest" /\ pc.at \in {"select", "fetch", "reconcile", "cancel", "post"}
       \/ mode = "ws" /\ pc.at = "select"
    /\ LET c == "A" IN
       \E processed \in BOOLEAN, upto \in 0..Len(engines[c].tracked_orders) :
          /\ (pc.at \notin {"cancel", "post"}) => ~processed
          /\ (pc.at # "reconcile") => upto = 0
          /\ LET ex1 == DroppedInFlight(c, {}, processed)
                 e1 == IF pc.at = "reconcile"
                       THEN [engines[c] EXCEPT !.tracked_orders =
                                reconcile_orders(@, exch, {i \in 1..Len(@) : i > upto})]
                       ELSE engines[c]
                 ids == cancel_all_ids(e1)
             IN  /\ exch' = ex1
                 /\ submitted' = submitted \o
                       [i \in 1..(IF pc.at = "post" /\ processed
                                  THEN Len(NextBatch(loc.remaining)) ELSE 0) |-> now]
                 /\ IF ids # {}
                    THEN /\ engines' = [engines EXCEPT ![c] = e1]
                         /\ pc' = [at |-> "shutdown_cancel", eng |-> c]
                         /\ loc' = [LocIdle EXCEPT !.ids = ids, !.cancel = "pending"]
                         /\ sent' = sent \cup {"cancel"}
                    ELSE /\ engines' = [engines EXCEPT ![c] = [e1 EXCEPT !.tracked_orders = <<>>]]
                         /\ pc' = Idle("stopped")
                         /\ loc' = LocIdle
                         /\ sent' = sent
    /\ feed' = "off"
    \* mgr.shutdown() (main.rs 230): the websocket loop only
    /\ tasks' = IF mode = "ws" THEN shutdown(tasks) ELSE tasks
    /\ call' = [CallNone EXCEPT !.op = "shutdown"]
    /\ UNCHANGED <<mode, now, sleep_until, chan, limiter, capital_allocations, queue,
                   scan, killed, budget>>

\* cancel_orders of the shutdown returns: Ok clears tracked_orders, an error is
\* logged (main.rs 231-233, 274-276); the loop breaks either way.
ShutdownCancelled ==
    /\ pc.at = "shutdown_cancel"
    /\ LET c == pc.eng IN
       \/ /\ exch' = ExchCancel(exch, loc.ids)
          /\ engines' = [engines EXCEPT ![c].tracked_orders = <<>>]
          /\ call' = [call EXCEPT !.res = "Ok"]
          /\ UNCHANGED budget
       \/ /\ budget.faults > 0
          /\ budget' = [budget EXCEPT !.faults = @ - 1]
          /\ call' = [call EXCEPT !.res = "Err_cancel"]
          /\ UNCHANGED <<exch, engines>>
    /\ pc' = Idle("stopped")
    /\ loc' = LocIdle
    /\ UNCHANGED <<mode, now, sleep_until, chan, feed, limiter, capital_allocations,
                   queue, scan, sent, submitted, killed, tasks>>

\* --------------------------------------------------------------------------
\* cmd_run without --live (main.rs 288-355)

\* tick_dry_run starts: in the REST loop as a branch of the select, in the
\* websocket loop when the sleep ended while ws_connected is false.
DryTickStart ==
    /\ \/ mode = "dry" /\ pc.at = "select"
       \/ mode = "dryws" /\ pc.at = "select" /\ ~engines["A"].ws_connected
                         /\ now >= sleep_until
    /\ budget.ticks > 0
    /\ pc' = [at |-> "dry_fetch", eng |-> "A"]
    /\ sent' = sent \cup {"midpoint"}
    /\ budget' = [budget EXCEPT !.ticks = @ - 1]
    /\ call' = [CallNone EXCEPT !.op = "tick_dry_run"]
    /\ UNCHANGED <<mode, engines, exch, now, loc, sleep_until, chan, feed, limiter,
                   capital_allocations, queue, scan, submitted, killed, tasks>>

\* fetch_midpoint returns to tick_dry_run, which runs to its end.
DryTickFetched ==
    /\ pc.at = "dry_fetch"
    /\ \/ /\ \E mid \in Mids :
                engines' = [engines EXCEPT !["A"] = tick_dry_run(@, mid, now)]
          /\ call' = [call EXCEPT !.res = "Ok"]
          /\ UNCHANGED budget
       \/ /\ budget.faults > 0
          /\ budget' = [budget EXCEPT !.faults = @ - 1]
          /\ call' = [call EXCEPT !.res = "Err_midpoint"]
          /\ UNCHANGED engines
    /\ pc' = IF mode = "dry" THEN Idle("sleep") ELSE Idle("select")
    /\ sleep_until' = now + engines["A"].config.requote_interval_secs
    /\ UNCHANGED <<mode, exch, now, loc, chan, feed, limiter, capital_allocations,
                   queue, scan, sent, submitted, killed, tasks>>

\* The dry-run websocket loop receives an event (main.rs 321-331).
DryWsRecv ==
    /\ mode = "dryws"
    /\ pc.at = "select"
    /\ chan # <<>>
    /\ LET h == handle_ws_event(engines["A"], Head(chan), now) IN
       /\ engines' = [engines EXCEPT !["A"] =
             IF h.requote /\ h.e.last_midpoint # None
             THEN [h.e EXCEPT !.current_quotes = compute_quotes(h.e, h.e.last_midpoint[1]),
                              !.last_requote = Some(now)]
             ELSE h.e]
       /\ call' = [CallNone EXCEPT !.op = "ws_event",
                                   !.res = IF h.requote THEN "requote" ELSE "none"]
    /\ chan' = Tail(chan)
    /\ sleep_until' = now + engines["A"].config.requote_interval_secs
    /\ UNCHANGED <<mode, exch, now, pc, loc, feed, limiter, capital_allocations, queue,
                   scan, sent, submitted, killed, tasks, budget>>

\* ctrl_c in the dry-run loops: the loop breaks, a tick in flight is dropped.
DryCtrlC ==
    /\ \/ mode = "dry" /\ pc.at \in {"select", "dry_fetch"}
       \/ mode = "dryws" /\ pc.at = "select"
    /\ pc' = Idle("stopped")
    /\ feed' = "off"
    \* mgr.shutdown() (main.rs 317): the websocket loop only
    /\ tasks' = IF mode = "dryws" THEN shutdown(tasks) ELSE tasks
    /\ call' = [CallNone EXCEPT !.op = "shutdown"]
    /\ UNCHANGED <<mode, engines, exch, now, loc, sleep_until, chan, limiter,
                   capital_allocations, queue, scan, sent, submitted, killed, budget>>

\* --------------------------------------------------------------------------
\* MarketManager (manager.rs 83-308)

Conds == {"A", "B"}

CondOrder == <<"A", "B">>

\* What the Gamma API may say of a market, besides leaving it out.
GammaKinds(c) ==
    IF c = "A" THEN {"live", "closed"} ELSE {"live", "unrewarded", "inactive"}

GammaMarket(c, kind) ==
    [condition_id |-> Some(c),
     active |-> IF kind = "inactive" THEN None ELSE Some(TRUE),
     closed |-> Some(kind = "closed"),
     clob_token_ids |-> 2,
     liquidity |-> 1000,
     competitive |-> IF kind = "unrewarded" THEN 0 ELSE IF c = "A" THEN 10 ELSE 20]

RECURSIVE GammaSeq(_, _)
GammaSeq(k, order) ==
    IF order = <<>> THEN <<>>
    ELSE (IF k[Head(order)] = "absent" THEN <<>> ELSE <<GammaMarket(Head(order), k[Head(order)])>>)
         \o GammaSeq(k, Tail(order))

GammaResponses ==
    {GammaSeq(k, CondOrder) :
        k \in {f \in [Conds -> {"live", "unrewarded", "closed", "inactive", "absent"}] :
                  \A c \in Conds : f[c] \in GammaKinds(c) \cup {"absent"}}}

\* The configuration of the manager: the defaults, with one level, a lower kill
\* switch and room for one market.
MgrStrategy == [StrategyDefault EXCEPT !.num_levels = 1]

MgrRisk == [RiskDefault EXCEPT !.kill_switch_loss = 50]

MgrMarkets == [MarketsDefault EXCEPT !.max_markets = 1]

\* The condition ids the Gamma response reports active and not closed.
ReportedLive(resp) ==
    {resp[i].condition_id[1] : i \in {j \in 1..Len(resp) :
        resp[j].active = Some(TRUE) /\ resp[j].closed = Some(FALSE)}}

\* rescan under a markets and a risk configuration: one call, the Gamma
\* request included.  scan.sized keeps, for the engines in the map, the
\* allocation initialize_markets read when it created them.
RescanWith(markets_cfg, risk) ==
    /\ pc.at = "idle"
    /\ budget.rescans > 0
    /\ sent' = sent \cup {"gamma"}
    /\ \/ \E resp \in GammaResponses :
            LET all_markets == scan_markets(resp)
                ranked == rank_markets(all_markets, markets_cfg.min_reward_daily,
                                       markets_cfg.max_markets)
                active_ids == {ranked[i].condition_id : i \in 1..Len(ranked)}
                new_markets == SelectSeq(ranked, LAMBDA m : m.condition_id \notin DOMAIN engines)
                init == initialize_markets(engines, MgrStrategy, risk, new_markets)
                engs1 == IF new_markets # <<>> THEN init.engines ELSE engines
                engs2 == remove_stale_markets(engs1, active_ids)
            IN  /\ engines' = engs2
                /\ capital_allocations' = IF new_markets # <<>> THEN init.capital_allocations
                                          ELSE capital_allocations
                /\ scan' = [done |-> TRUE,
                            ranked |-> [i \in 1..Len(ranked) |-> ranked[i].condition_id],
                            live |-> ReportedLive(resp),
                            sized |-> [c \in DOMAIN engs2 |->
                                         IF c \in DOMAIN engines THEN scan.sized[c]
                                         ELSE init.capital_allocations[c]]]
                /\ call' = [CallNone EXCEPT !.op = "rescan", !.res = "Ok"]
                /\ budget' = [budget EXCEPT !.rescans = @ - 1]
       \/ /\ budget.faults > 0
          /\ budget' = [budget EXCEPT !.rescans = @ - 1, !.faults = @ - 1]
          /\ call' = [CallNone EXCEPT !.op = "rescan", !.res = "Err_scan"]
          /\ UNCHANGED <<engines, capital_allocations, scan>>
    /\ UNCHANGED <<mode, exch, now, pc, loc, sleep_until, chan, feed, limiter, queue,
                   submitted, killed, tasks>>

Rescan ==
    /\ mode = "mgr"
    /\ RescanWith(MgrMarkets, MgrRisk)

\* The orders in which a set may be visited (HashMap::keys).
RECURSIVE Orders(_)
Orders(S) ==
    IF S = {} THEN {<<>>}
    ELSE UNION {{<<c>> \o rest : rest \in Orders(S \ {c})} : c \in S}

\* tick_all up to its first await: the kill switch is evaluated.
TickAllStart ==
    /\ mode = "mgr"
    /\ pc.at = "idle"
    /\ budget.tick_alls > 0
    /\ budget' = [budget EXCEPT !.tick_alls = @ - 1]
    /\ IF should_kill_switch(engines, MgrRisk)
       THEN /\ pc' = Idle("bulk_cancel")
            /\ sent' = sent \cup {"cancel_all"}
            /\ killed' = TRUE
            /\ queue' = <<>>
            /\ call' = [CallNone EXCEPT !.op = "tick_all", !.kill = TRUE, !.pre = engines]
       ELSE /\ \E order \in Orders(DOMAIN engines) : queue' = order
            /\ pc' = Idle("next")
            /\ call' = [CallNone EXCEPT !.op = "tick_all"]
            /\ UNCHANGED <<sent, killed>>
    /\ UNCHANGED <<mode, engines, exch, now, loc, sleep_until, chan, feed, limiter,
                   capital_allocations, scan, submitted, tasks>>

\* cancel_all_markets: the bulk cancel returns.
BulkCancelled ==
    /\ pc.at = "bulk_cancel"
    /\ \/ /\ exch' = ExchCancelAll(exch)
          /\ engines' = clear_tracked(engines)
          /\ call' = [call EXCEPT !.res = "Ok"]
          /\ UNCHANGED budget
       \/ /\ budget.faults > 0
          /\ budget' = [budget EXCEPT !.faults = @ - 1]
          /\ call' = [call EXCEPT !.res = "Err_cancel_all"]
          /\ UNCHANGED <<exch, engines>>
    /\ pc' = Idle("idle")
    /\ UNCHANGED <<mode, now, loc, sleep_until, chan, feed, limiter, capital_allocations,
                   queue, scan, sent, submitted, killed, tasks>>

\* A loop that leaves at the first engine the limiter refuses.
TickNextMutantBreak ==
    /\ pc.at = "next"
    /\ IF queue = <<>>
       THEN /\ pc' = Idle("idle")
            /\ call' = [call EXCEPT !.res = "Ok"]
            /\ UNCHANGED <<queue, limiter, sent>>
       ELSE LET c == Head(queue)
                estimated_orders == engines[c].config.num_levels * 4
                r == can_place(limiter, estimated_orders, now)
            IN  /\ limiter' = r.l
                /\ IF r.ok
                   THEN /\ pc' = [at |-> "fetch", eng |-> c]
                        /\ queue' = Tail(queue)
                        /\ sent' = sent \cup {"midpoint"}
                   ELSE /\ queue' = <<>>
                        /\ UNCHANGED <<pc, sent>>
                /\ UNCHANGED call
    /\ UNCHANGED <<mode, engines, exch, now, loc, sleep_until, chan, feed,
                   capital_allocations, scan, submitted, killed, tasks, budget>>

\* The loop of tick_all: the next engine is ticked unless the limiter refuses,
\* and after the last one the call returns Ok.
TickNext ==
    /\ pc.at = "next"
    /\ IF queue = <<>>
       THEN /\ pc' = Idle("idle")
            /\ call' = [call EXCEPT !.res = "Ok"]
            /\ UNCHANGED <<queue, limiter, sent>>
       ELSE LET c == Head(queue)
                estimated_orders == engines[c].config.num_levels * 4
                r == can_place(limiter, estimated_orders, now)
            IN  /\ queue' = Tail(queue)
                /\ limiter' = r.l
                /\ IF r.ok
                   THEN /\ pc' = [at |-> "fetch", eng |-> c]
                        /\ sent' = sent \cup {"midpoint"}
                   ELSE /\ UNCHANGED <<pc, sent>>
                /\ UNCHANGED call
    /\ UNCHANGED <<mode, engines, exch, now, loc, sleep_until, chan, feed,
                   capital_allocations, scan, submitted, killed, tasks, budget>>

InitCommon ==
    /\ exch = <<>>
    /\ now = 0
    /\ loc = LocIdle
    /\ chan = <<>>
    /\ capital_allocations = <<>>
    /\ queue = <<>>
    /\ call = CallNone
    /\ scan = [done |-> FALSE, ranked |-> <<>>, live |-> {}, sized |-> <<>>]
    /\ sent = {}
    /\ submitted = <<>>
    /\ killed = FALSE

\* cmd_run --live: WsManager::start succeeded (the websocket loop, ws_connected
\* set at main.rs 209) or it failed or --no-ws was given (the REST loop).
InitRun ==
    /\ InitCommon
    /\ tasks = NoTasks
    /\ budget = Budget0
    /\ limiter = NewLimiter(0, 0)
    /\ mode \in {"rest", "ws"}
    /\ feed = IF mode = "ws" THEN "up" ELSE "off"
    /\ engines = [c \in {"A"} |->
                    [NewEngine(Market(c), RunStrategy, FALSE) EXCEPT !.ws_connected = mode = "ws"]]
    /\ pc = Idle("select")
    /\ sleep_until = RunStrategy.requote_interval_secs

NextRun ==
    \/ RestTickStart
    \/ WsFallbackTick
    \/ WsRecv
    \/ TickFetched
    \/ TickReconciled
    \/ TickCancelled
    \/ TickPosted
    \/ Wake
    \/ CtrlC
    \/ ShutdownCancelled
    \/ FeedMidpoint
    \/ FeedError
    \/ FeedRestart
    \/ ExchangeFill
    \/ Advance

SpecRun == InitRun /\ [][NextRun]_vars

\* cmd_run --live polling over REST, with a strategy whose inventory_cap is half
\* an order, so that one partial fill reaches the cap.
CapStrategy == [RunStrategy EXCEPT !.inventory_cap = RunStrategy.order_size \div FillLots]

InitCap ==
    /\ InitCommon
    /\ tasks = NoTasks
    /\ budget = Budget0
    /\ limiter = NewLimiter(0, 0)
    /\ mode = "rest"
    /\ feed = "off"
    /\ engines = [c \in {"A"} |-> NewEngine(Market(c), CapStrategy, FALSE)]
    /\ pc = Idle("select")
    /\ sleep_until = CapStrategy.requote_interval_secs

NextCap ==
    \/ RestTickStart
    \/ TickFetched
    \/ TickReconciled
    \/ TickCancelled
    \/ TickPosted
    \/ Wake
    \/ ExchangeFill
    \/ Advance

SpecCap == InitCap /\ [][NextCap]_vars

\* cmd_run without --live: with the websocket (market subscription only) or
\* with REST polling.
InitDry ==
    /\ InitCommon
    /\ tasks = NoTasks
    /\ budget = Budget0
    /\ limiter = NewLimiter(0, 0)
    /\ mode \in {"dry", "dryws"}
    /\ feed = IF mode = "dryws" THEN "up" ELSE "off"
    /\ engines = [c \in {"A"} |->
                    [NewEngine(Market(c), RunStrategy, TRUE) EXCEPT !.ws_connected = mode = "dryws"]]
    /\ pc = Idle("select")
    /\ sleep_until = RunStrategy.requote_interval_secs

NextDry ==
    \/ DryTickStart
    \/ DryTickFetched
    \/ DryWsRecv
    \/ DryCtrlC
    \/ Wake
    \/ FeedMidpoint
    \/ FeedError
    \/ FeedRestart
    \/ Advance

SpecDry == InitDry /\ [][NextDry]_vars

\* C10: in dry-run mode no place and no cancel request is ever sent, the
\* engine's tracked_orders stays empty and its inventory and bought/sold values
\* stay zero across dry-run ticks and websocket events, and a dry-run tick that
\* requotes changes only last_midpoint, last_requote and current_quotes.
DryUntouched(e, f) ==
    /\ f.market = e.market /\ f.config = e.config /\ f.dry_run = e.dry_run
    /\ f.tracked_orders = e.tracked_orders
    /\ f.inventory_yes = e.inventory_yes /\ f.inventory_no = e.inventory_no
    /\ f.total_bought_value = e.total_bought_value
    /\ f.total_sold_value = e.total_sold_value
    /\ f.ws_connected = e.ws_connected

DryQuiet ==
    /\ sent \cap {"post", "cancel"} = {}
    /\ exch = <<>>
    /\ engines["A"].tracked_orders = <<>>
    /\ engines["A"].inventory_yes = 0 /\ engines["A"].inventory_no = 0
    /\ engines["A"].total_bought_value = 0 /\ engines["A"].total_sold_value = 0

DryTickStep ==
    (pc.at = "dry_fetch" /\ pc'.at # "dry_fetch" /\ pc'.at # "stopped")
        => DryUntouched(engines["A"], engines'["A"])

C10_DryRunSendsNothing == [](mode \in {"dry", "dryws"} => DryQuiet) /\ [][DryTickStep]_vars

\* A dry-run tick has requoted after the websocket loop handled an event.
C10_Witness ==
    /\ mode = "dryws"
    /\ call.op = "tick_dry_run" /\ call.res = "Ok"
    /\ engines["A"].current_quotes # <<>>
    /\ engines["A"].last_requote = Some(now)
    /\ ~engines["A"].ws_connected

\* The limits of the manager's RateLimiter, scaled from 3500 and 36000.
MgrBurstLimit == 12

MgrSustainedLimit == 40

\* What the environment of the manager may do.
MgrBudget == [Budget0 EXCEPT !.rejects = 0, !.advances = 1]

\* MarketManager::new; the engines come with the first rescan.
InitMgr ==
    /\ InitCommon
    /\ tasks = NoTasks
    /\ mode = "mgr"
    /\ feed = "off"
    /\ budget = MgrBudget
    /\ engines = <<>>
    /\ pc = Idle("idle")
    /\ sleep_until = 0
    /\ limiter = NewLimiter(MgrBurstLimit, MgrSustainedLimit)

NextMgr ==
    \/ Rescan
    \/ TickAllStart
    \/ BulkCancelled
    \/ TickNext
    \/ TickFetched
    \/ TickReconciled
    \/ TickCancelled
    \/ TickPosted
    \/ ExchangeFill
    \/ Advance

SpecMgr == InitMgr /\ [][NextMgr]_vars

\* --------------------------------------------------------------------------
\* tick_all with placements of two batches (16 orders a tick)

BurstStrategy == [StrategyDefault EXCEPT !.num_levels = 4]

\* burst_limit, scaled from 3500: one tick's orders fit, two ticks' do not.
BurstLimitScaled == 20

BurstBudget == [Budget0 EXCEPT !.fills = 0, !.rejects = 0, !.tick_alls = 3, !.rescans = 0]

\* A manager whose one market was given to initialize_markets.
InitBurst ==
    /\ InitCommon
    /\ tasks = NoTasks
    /\ mode = "mgr"
    /\ feed = "off"
    /\ budget = BurstBudget
    /\ LET init == initialize_markets(<<>>, BurstStrategy, MgrRisk,
                                      <<MarketInfo(GammaMarket("A", "live"))>>)
       IN  engines = init.engines
    /\ pc = Idle("idle")
    /\ sleep_until = 0
    /\ limiter = NewLimiter(BurstLimitScaled, MgrSustainedLimit)

NextBurst ==
    \/ TickAllStart
    \/ TickNext
    \/ TickFetched
    \/ TickReconciled
    \/ TickCancelled
    \/ TickPosted
    \/ Advance

SpecBurst == InitBurst /\ [][NextBurst]_vars

\* --------------------------------------------------------------------------
\* tick_all over two engines

\* burst_limit, scaled from 3500: the 4 orders of one engine fit, those of two
\* engines within the burst window do not.
PairBurstLimit == 6

PairBudget == [Budget0 EXCEPT !.fills = 0, !.rejects = 0, !.tick_alls = 2, !.rescans = 0]

\* A manager whose two markets were given to initialize_markets.
InitPair ==
    /\ InitCommon
    /\ tasks = NoTasks
    /\ mode = "mgr"
    /\ feed = "off"
    /\ budget = PairBudget
    /\ LET init == initialize_markets(<<>>, MgrStrategy, MgrRisk,
                                      <<MarketInfo(GammaMarket("A", "live")),
                                        MarketInfo(GammaMarket("B", "live"))>>)
       IN  engines = init.engines
    /\ pc = Idle("idle")
    /\ sleep_until = 0
    /\ limiter = NewLimiter(PairBurstLimit, MgrSustainedLimit)

NextPair ==
    \/ TickAllStart
    \/ TickNext
    \/ TickFetched
    \/ TickReconciled
    \/ TickCancelled
    \/ TickPosted
    \/ Advance

SpecPair == InitPair /\ [][NextPair]_vars

\* --------------------------------------------------------------------------
\* Rescans of a manager with room for two markets

\* max_markets = 2; max_total_capital below twice max_per_market.
WideMarkets == [MarketsDefault EXCEPT !.max_markets = 2]

WideRisk == [RiskDefault EXCEPT !.max_total_capital = 700]

ScanBudget ==
    [Budget0 EXCEPT !.fills = 0, !.rejects = 0, !.advances = 0, !.tick_alls = 1,
                    !.rescans = MaxRescans + 1]

InitScan ==
    /\ InitCommon
    /\ tasks = NoTasks
    /\ mode = "mgr"
    /\ feed = "off"
    /\ budget = ScanBudget
    /\ engines = <<>>
    /\ pc = Idle("idle")
    /\ sleep_until = 0
    /\ limiter = NewLimiter(MgrBurstLimit, MgrSustainedLimit)

RescanWide ==
    /\ mode = "mgr"
    /\ RescanWith(WideMarkets, WideRisk)

NextScan ==
    \/ RescanWide
    \/ TickAllStart
    \/ TickNext
    \/ TickFetched
    \/ TickPosted

SpecScan == InitScan /\ [][NextScan]_vars

\* --------------------------------------------------------------------------
\* The RateLimiter on its own (manager.rs 20-79)

\* The limits of the limiter, scaled from 3500 and 36000 (the test sets
\* burst_limit to 10).
LimBurstLimit == 3

LimSustainedLimit == 5

LimCanPlace ==
    /\ mode = "limiter"
    /\ \E n \in 0..MaxCount :
          LET r == can_place(limiter, n, now) IN
          /\ limiter' = r.l
          /\ call' = [CallNone EXCEPT !.op = "can_place", !.arg = n, !.t = now,
                                      !.pre = limiter.order_timestamps,
                                      !.res = IF r.ok THEN "true" ELSE "false"]
    /\ UNCHANGED <<mode, engines, exch, now, pc, loc, sleep_until, chan, feed,
                   capital_allocations, queue, scan, sent, submitted, killed, tasks, budget>>

LimRecord ==
    /\ mode = "limiter"
    /\ budget.records > 0
    /\ \E k \in 1..MaxCount :
          /\ limiter' = record(limiter, k, now)
          /\ call' = [CallNone EXCEPT !.op = "record", !.arg = k, !.t = now]
    /\ budget' = [budget EXCEPT !.records = @ - 1]
    /\ UNCHANGED <<mode, engines, exch, now, pc, loc, sleep_until, chan, feed,
                   capital_allocations, queue, scan, sent, submitted, killed, tasks>>

LimiterBudget == [Budget0 EXCEPT !.advances = MaxAdvances + 2]

InitLimiter ==
    /\ InitCommon
    /\ tasks = NoTasks
    /\ mode = "limiter"
    /\ feed = "off"
    /\ budget = LimiterBudget
    /\ engines = <<>>
    /\ pc = Idle("idle")
    /\ sleep_until = 0
    /\ limiter = NewLimiter(LimBurstLimit, LimSustainedLimit)

NextLimiter ==
    \/ LimCanPlace
    \/ LimRecord
    \/ Advance

SpecLimiter == InitLimiter /\ [][NextLimiter]_vars

\* --------------------------------------------------------------------------
\* The subscription tasks of WsManager::start, step by step (ws.rs 43-103,
\* 111-219), beside the websocket loop of cmd_run --live.  The clock of this
\* specification is relative: `now` stays 0 and the passing of time moves every
\* stored time into the past.

TaskIds == {"market", "user"}

\* tokio::time::sleep(Duration::from_secs(5)) of both tasks.
ReconnectDelay == 5

\* The capacity of the event channel where the tasks are followed step by step
\* (the code's is ChanCapacity), so that a full channel occurs.
ChanScaled == 1

\* The strategy where the tasks are followed: the defaults with one level and
\* a requote interval as short as the reconnect delay (with a longer one the
\* Reconnected of the market task always comes before the fallback sleep ends).
WsStrategy == [RunStrategy EXCEPT !.requote_interval_secs = ReconnectDelay]

\* For how long the wait of the websocket loop is counted after an error of the
\* market subscription.
MaxDownAge == 3 * WsStrategy.requote_interval_secs

NoEvent == [type |-> "none", midpoint |-> 0]

\* A task as tokio::spawn leaves it.  at: where the task is; wake: when its
\* sleep ends; seen: its watch receiver has seen the shutdown value; stream:
\* what the exchange's stream does ("ok", "failed": it yields an error,
\* "closed": it ends); ev: the event its send carries.  What the task did since
\* its last subscription error is kept in hist; late: it started a subscription
\* after shutdown(); down_age (of the market task): None, or, from a
\* subscription error until a subscription succeeds, for how long the websocket
\* loop has waited at its select since that error.
NewTask ==
    [at |-> "check", wake |-> 0, seen |-> FALSE, stream |-> "ok", ev |-> NoEvent,
     hist |-> <<>>, late |-> FALSE, down_age |-> None]

Task(k) == tasks.task[k]

SetTask(k, t) == tasks' = [tasks EXCEPT !.task[k] = t]

Log(t, what) == IF t.hist = <<>> THEN t ELSE [t EXCEPT !.hist = Append(@, what)]

\* The loop head (ws.rs 62-64, 82-84): if *rx.borrow() { break }.
AfterCheckMutantDeaf(t, down) == [t EXCEPT !.at = "subscribe"]

AfterCheck(t, down) == [t EXCEPT !.at = IF down THEN "done" ELSE "subscribe"]

TaskCheck(k) ==
    /\ k \in DOMAIN tasks.task
    /\ Task(k).at = "check"
    /\ SetTask(k, AfterCheck(Task(k), tasks.shutdown))
    /\ UNCHANGED <<mode, engines, exch, now, pc, loc, sleep_until, chan, feed, limiter,
                   capital_allocations, queue, call, scan, sent, submitted, killed, budget>>

\* run_market_subscription / run_user_subscription returned Err (ws.rs 65-71,
\* 84-90): the market task sends Disconnected, the user task only sleeps.
AfterError(k, t) ==
    LET t1 == [t EXCEPT !.down_age = IF k = "market" THEN Some(0) ELSE None]
    IN  IF k = "market"
        THEN [t1 EXCEPT !.at = "send_disc",
                        !.ev = [type |-> "Disconnected", midpoint |-> 0],
                        !.hist = <<"error">>]
        ELSE [t1 EXCEPT !.at = "sleep", !.wake = ReconnectDelay,
                        !.hist = <<"error", "wait">>]

\* The subscription call of run_*_subscription (ws.rs 119-122, 170-181)
\* returns: with an error while the stream is failed, else with the stream.
TaskSubscribe(k) ==
    /\ k \in DOMAIN tasks.task
    /\ Task(k).at = "subscribe"
    /\ LET t == IF "restart" \in {Task(k).hist[i] : i \in 1..Len(Task(k).hist)}
                THEN Task(k) ELSE Log(Task(k), "restart")
       IN  SetTask(k, IF t.stream = "failed"
                      THEN AfterError(k, t)
                      ELSE [t EXCEPT !.at = "stream",
                                     !.late = @ \/ tasks.shutdown,
                                     !.down_age = None])
    /\ UNCHANGED <<mode, engines, exch, now, pc, loc, sleep_until, chan, feed, limiter,
                   capital_allocations, queue, call, scan, sent, submitted, killed, budget>>

\* The select of run_*_subscription: shutdown_rx.changed() completes and the
\* value is true (ws.rs 128-132, 188-192): break, Ok(()), back to the loop head.
TaskSeesShutdown(k) ==
    /\ k \in DOMAIN tasks.task
    /\ Task(k).at = "stream"
    /\ tasks.shutdown
    /\ ~Task(k).seen
    /\ SetTask(k, [Task(k) EXCEPT !.seen = TRUE, !.at = "check"])
    /\ UNCHANGED <<mode, engines, exch, now, pc, loc, sleep_until, chan, feed, limiter,
                   capital_allocations, queue, call, scan, sent, submitted, killed, budget>>

\* The select: the market stream yields a midpoint (ws.rs 135-145).  No order
\* of the account trades in this specification, so the user stream yields no
\* trade.
TaskItem(k) ==
    /\ k \in DOMAIN tasks.task
    /\ k = "market"
    /\ Task(k).at = "stream"
    /\ Task(k).stream = "ok"
    /\ budget.events > 0
    /\ \E m \in Mids :
          SetTask(k, [Task(k) EXCEPT !.at = "send",
                                     !.ev = [type |-> "MidpointUpdate", midpoint |-> m]])
    /\ budget' = [budget EXCEPT !.events = @ - 1]
    /\ UNCHANGED <<mode, engines, exch, now, pc, loc, sleep_until, chan, feed, limiter,
                   capital_allocations, queue, call, scan, sent, submitted, killed>>

\* The select: the stream yields an error (ws.rs 146-149, 206-209).
TaskStreamErr(k) ==
    /\ k \in DOMAIN tasks.task
    /\ Task(k).at = "stream"
    /\ Task(k).stream = "failed"
    /\ SetTask(k, AfterError(k, Task(k)))
    /\ UNCHANGED <<mode, engines, exch, now, pc, loc, sleep_until, chan, feed, limiter,
                   capital_allocations, queue, call, scan, sent, submitted, killed, budget>>

\* The select: the stream ends (ws.rs 150-153, 210-213): Ok(()), and the loop
\* subscribes again with no event and no wait.
TaskStreamEnd(k) ==
    /\ k \in DOMAIN tasks.task
    /\ Task(k).at = "stream"
    /\ Task(k).stream = "closed"
    /\ SetTask(k, [Task(k) EXCEPT !.at = "check"])
    /\ UNCHANGED <<mode, engines, exch, now, pc, loc, sleep_until, chan, feed, limiter,
                   capital_allocations, queue, call, scan, sent, submitted, killed, budget>>

\* The receiver of the channel lives until the websocket loop is left.
ReceiverDropped == pc.at = "stopped"

\* tx.send(event).await completes (ws.rs 67, 70, 141-144): the event is queued
\* when the channel has room; with the receiver dropped the send returns an
\* error, which `let _` drops; else the task stays blocked.
TaskSend(k) ==
    /\ k \in DOMAIN tasks.task
    /\ Task(k).at \in {"send", "send_disc", "send_reconn"}
    /\ ReceiverDropped \/ Len(chan) < ChanScaled
    /\ chan' = IF ReceiverDropped THEN chan ELSE Append(chan, Task(k).ev)
    /\ SetTask(k, CASE Task(k).at = "send" -> [Task(k) EXCEPT !.at = "stream", !.ev = NoEvent]
                    [] Task(k).at = "send_disc" ->
                           [Log(Log(Task(k), "Disconnected"), "wait")
                               EXCEPT !.at = "sleep", !.wake = ReconnectDelay, !.ev = NoEvent]
                    [] OTHER ->
                           [Log(Task(k), "Reconnected") EXCEPT !.at = "check", !.ev = NoEvent])
    /\ UNCHANGED <<mode, engines, exch, now, pc, loc, sleep_until, feed, limiter,
                   capital_allocations, queue, call, scan, sent, submitted, killed, budget>>

\* The sleep of 5 s ends (ws.rs 69-70, 89): the market task goes on to send
\* Reconnected, the user task to the loop head.
TaskWake(k) ==
    /\ k \in DOMAIN tasks.task
    /\ Task(k).at = "sleep"
    /\ Task(k).wake = 0
    /\ SetTask(k, IF k = "market"
                  THEN [Task(k) EXCEPT !.at = "send_reconn",
                                       !.ev = [type |-> "Reconnected", midpoint |-> 0]]
                  ELSE [Task(k) EXCEPT !.at = "check"])
    /\ UNCHANGED <<mode, engines, exch, now, pc, loc, sleep_until, chan, feed, limiter,
                   capital_allocations, queue, call, scan, sent, submitted, killed, budget>>

\* The exchange's stream of a task breaks: it yields errors, or it ends.
StreamBreaks(k) ==
    /\ k \in DOMAIN tasks.task
    /\ Task(k).at # "done"
    /\ Task(k).stream = "ok"
    /\ budget.faults > 0
    /\ \E to \in {"failed", "closed"} : SetTask(k, [Task(k) EXCEPT !.stream = to])
    /\ budget' = [budget EXCEPT !.faults = @ - 1]
    /\ UNCHANGED <<mode, engines, exch, now, pc, loc, sleep_until, chan, feed, limiter,
                   capital_allocations, queue, call, scan, sent, submitted, killed>>

\* The stream works again.
StreamRecovers(k) ==
    /\ k \in DOMAIN tasks.task
    /\ Task(k).at # "done"
    /\ Task(k).stream # "ok"
    /\ SetTask(k, [Task(k) EXCEPT !.stream = "ok"])
    /\ UNCHANGED <<mode, engines, exch, now, pc, loc, sleep_until, chan, feed, limiter,
                   capital_allocations, queue, call, scan, sent, submitted, killed, budget>>

\* What takes no time: a select of the websocket loop with a branch ready (an
\* event in the channel, or the fallback sleep over while ws_connected is
\* false), and the steps of a task that wait for nothing outside it (its sleep
\* is over, it is at the loop head, its send has room or no receiver).  The
\* requests to the exchange, the subscription calls and the streams take their
\* time.
TimerDue ==
    /\ pc.at = "select"
    /\ ~engines["A"].ws_connected
    /\ sleep_until <= now

Urgent ==
    \/ pc.at = "select" /\ chan # <<>>
    \/ TimerDue
    \/ \E k \in DOMAIN tasks.task :
          \/ Task(k).at = "sleep" /\ Task(k).wake = 0
          \/ Task(k).at = "check"
          \/ /\ Task(k).at \in {"send", "send_disc", "send_reconn"}
             /\ ReceiverDropped \/ Len(chan) < ChanScaled

\* ReconnectDelay seconds pass: the sleeps in flight come that much nearer to
\* their end, and last_requote and the submissions move into the past (as far
\* as should_requote and the burst window tell them apart).
WsTimePasses ==
    /\ mode = "ws"
    /\ ~Urgent
    /\ LET d == ReconnectDelay
           horizon == WsStrategy.requote_interval_secs + d
       IN  /\ sleep_until' = Max(sleep_until - d, now)
           /\ engines' = [c \in DOMAIN engines |->
                 [engines[c] EXCEPT !.last_requote =
                     IF @ = None THEN None ELSE Some(Max(@[1] - d, now - horizon))]]
           /\ submitted' = SelectSeq([i \in 1..Len(submitted) |-> submitted[i] - d],
                                     LAMBDA x : now - x < BurstWindow)
           /\ tasks' = [tasks EXCEPT !.task = [k \in DOMAIN @ |->
                 [@[k] EXCEPT !.wake = Max(@ - d, 0),
                              !.down_age = IF @ # None /\ pc.at = "select"
                                           THEN Some(Min(@[1] + d, MaxDownAge)) ELSE @]]]
    /\ UNCHANGED <<mode, exch, now, pc, loc, chan, feed, limiter, capital_allocations,
                   queue, call, scan, sent, killed, budget>>

\* What the exchange, the transport and the streams may do beside the tasks.
WsBudget == [Budget0 EXCEPT !.ticks = 1, !.fills = 0, !.faults = 1, !.rejects = 0,
                            !.events = 1]

\* cmd_run --live after WsManager::start returned Ok (main.rs 200-221).
InitWs ==
    /\ InitCommon
    /\ tasks = [shutdown |-> FALSE, task |-> [k \in TaskIds |-> NewTask]]
    /\ budget = WsBudget
    /\ limiter = NewLimiter(0, 0)
    /\ mode = "ws"
    /\ feed = "up"
    /\ engines = [c \in {"A"} |->
                    [NewEngine(Market(c), WsStrategy, FALSE) EXCEPT !.ws_connected = TRUE]]
    /\ pc = Idle("select")
    /\ sleep_until = WsStrategy.requote_interval_secs

NextWs ==
    \/ \E k \in TaskIds :
          \/ TaskCheck(k)
          \/ TaskSubscribe(k)
          \/ TaskSeesShutdown(k)
          \/ TaskItem(k)
          \/ TaskStreamErr(k)
          \/ TaskStreamEnd(k)
          \/ TaskSend(k)
          \/ TaskWake(k)
          \/ StreamBreaks(k)
          \/ StreamRecovers(k)
    \/ WsTimePasses
    \/ WsRecv
    \/ WsFallbackTick
    \/ TickFetched
    \/ TickReconciled
    \/ TickCancelled
    \/ TickPosted
    \/ CtrlC
    \/ ShutdownCancelled

\* The tokio runtime runs every task that can run; its select takes a ready
\* branch at random, so a branch that is ready again and again is taken; a
\* request to the exchange returns; time passes.
FairWs ==
    /\ WF_vars(WsTimePasses)
    /\ WF_vars(ShutdownCancelled)
    /\ \A k \in TaskIds :
          /\ WF_vars(TaskCheck(k))
          /\ WF_vars(TaskSubscribe(k))
          /\ SF_vars(TaskSeesShutdown(k))
          /\ WF_vars(TaskSend(k))
          /\ WF_vars(TaskWake(k))

SpecWs == InitWs /\ [][NextWs]_vars /\ FairWs

\* --------------------------------------------------------------------------
\* cancel_orders called again and again with one list of ids, for an engine
\* whose quotes rest on the exchange in any state of fill

MaxCancelCalls == 2

\* An order of the exchange after `lots` lots of it were matched.
Matched(o, lots) ==
    LET m == Min(o.original_size, lots * (o.original_size \div FillLots))
    IN  [o EXCEPT !.size_matched = m, !.open = m < o.original_size]

CancelBudget == [Budget0 EXCEPT !.fills = 1, !.faults = MaxCancelCalls]

InitCancel ==
    /\ now = 0
    /\ chan = <<>>
    /\ capital_allocations = <<>>
    /\ queue = <<>>
    /\ call = [CallNone EXCEPT !.arg = 0]
    /\ scan = [done |-> FALSE, ranked |-> <<>>, live |-> {}, sized |-> <<>>]
    /\ sent = {"post"}
    /\ submitted = <<>>
    /\ killed = FALSE
    /\ tasks = NoTasks
    /\ mode = "cancel"
    /\ feed = "off"
    /\ budget = CancelBudget
    /\ limiter = NewLimiter(0, 0)
    /\ pc = Idle("idle")
    /\ sleep_until = 0
    /\ LET e == NewEngine(Market("A"), RunStrategy, FALSE)
           quotes == compute_quotes(e, HALF)
           metas == BuildOrders(e.market.token_yes_id, e.market.token_no_id, quotes)
           placed == ExchAccept(<<>>, "A", metas)
       IN  /\ engines = [c \in {"A"} |->
                            [e EXCEPT !.tracked_orders = TrackAccepted(0, metas),
                                      !.last_midpoint = Some(HALF),
                                      !.last_requote = Some(0),
                                      !.current_quotes = quotes]]
           /\ \E lots \in [1..Len(placed) -> 0..FillLots] :
                 exch = [i \in 1..Len(placed) |-> Matched(placed[i], lots[i])]
           /\ \E ids \in SUBSET (1..Len(placed)) : loc = [LocIdle EXCEPT !.ids = ids]

\* One call of cancel_orders with the list: call.arg counts the calls and
\* call.pre is the result of the latest.
CancelOrdersCallMutantMarkFilled ==
    /\ mode = "cancel"
    /\ call.arg < MaxCancelCalls
    /\ \E ok \in BOOLEAN :
          /\ ~ok => budget.faults > 0
          /\ LET r == cancel_orders(exch, loc.ids, ok)
                 left == IF r.res = None THEN {} ELSE {i \in loc.ids : ~exch[i].open}
             IN  /\ exch' = r.ex
                 /\ sent' = IF loc.ids = {} THEN sent ELSE sent \cup {"cancel"}
                 /\ call' = [call EXCEPT !.op = "cancel_orders", !.arg = @ + 1,
                                         !.pre = r.res]
                 /\ engines' = [engines EXCEPT !["A"].tracked_orders =
                        [i \in 1..Len(@) |->
                            IF @[i].order_id \in left THEN [@[i] EXCEPT !.status = "Filled"]
                            ELSE @[i]]]
                 /\ budget' = [budget EXCEPT !.faults = IF ok THEN @ ELSE @ - 1]
    /\ UNCHANGED <<mode, now, pc, loc, sleep_until, chan, feed, limiter,
                   capital_allocations, queue, scan, submitted, killed, tasks>>

CancelOrdersCall ==
    /\ mode = "cancel"
    /\ call.arg < MaxCancelCalls
    /\ \E ok \in BOOLEAN :
          /\ ~ok => budget.faults > 0
          /\ LET r == cancel_orders(exch, loc.ids, ok)
             IN  /\ exch' = r.ex
                 /\ sent' = IF loc.ids = {} THEN sent ELSE sent \cup {"cancel"}
                 /\ call' = [call EXCEPT !.op = "cancel_orders", !.arg = @ + 1,
                                         !.pre = r.res]
                 /\ budget' = [budget EXCEPT !.faults = IF ok THEN @ ELSE @ - 1]
    /\ UNCHANGED <<mode, engines, now, pc, loc, sleep_until, chan, feed, limiter,
                   capital_allocations, queue, scan, submitted, killed, tasks>>

NextCancel ==
    \/ CancelOrdersCall
    \/ ExchangeFill

SpecCancel == InitCancel /\ [][NextCancel]_vars

\* --------------------------------------------------------------------------
\* reconcile_orders and QuoteEngine::cancel_all called on an engine that tracks
\* four resting orders

OrdersBudget == [Budget0 EXCEPT !.advances = 0, !.rejects = 0]

\* The engine after a requote at 0.50 whose four orders were accepted; the
\* exchange has since matched nothing, part or all of each.
InitOrders ==
    /\ now = 0
    /\ chan = <<>>
    /\ capital_allocations = <<>>
    /\ queue = <<>>
    /\ call = CallNone
    /\ scan = [done |-> FALSE, ranked |-> <<>>, live |-> {}, sized |-> <<>>]
    /\ sent = {"post"}
    /\ submitted = <<>>
    /\ killed = FALSE
    /\ tasks = NoTasks
    /\ mode = "orders"
    /\ feed = "off"
    /\ budget = OrdersBudget
    /\ limiter = NewLimiter(0, 0)
    /\ pc = Idle("idle")
    /\ loc = LocIdle
    /\ sleep_until = 0
    /\ LET e == NewEngine(Market("A"), RunStrategy, FALSE)
           quotes == compute_quotes(e, HALF)
           metas == BuildOrders(e.market.token_yes_id, e.market.token_no_id, quotes)
           placed == ExchAccept(<<>>, "A", metas)
       IN  /\ engines = [c \in {"A"} |->
                            [e EXCEPT !.tracked_orders = TrackAccepted(0, metas),
                                      !.last_midpoint = Some(HALF),
                                      !.last_requote = Some(0),
                                      !.current_quotes = quotes]]
           /\ \E lots \in [1..Len(placed) -> 0..FillLots] :
                 exch = [i \in 1..Len(placed) |-> Matched(placed[i], lots[i])]

\* One pass of reconcile_orders over tracked_orders; some status queries may
\* fail.  call.pre keeps the list before the pass and the failed positions.
ReconcilePass ==
    /\ mode = "orders"
    /\ budget.ticks > 0
    /\ LET tracked == engines["A"].tracked_orders IN
       \E fails \in FailChoices(Queried(tracked), budget.faults) :
          /\ engines' = [engines EXCEPT !["A"].tracked_orders =
                            reconcile_orders(tracked, exch, fails)]
          /\ sent' = IF Queried(tracked) = {} THEN sent ELSE sent \cup {"order"}
          /\ call' = [CallNone EXCEPT !.op = "reconcile_orders", !.res = "Ok",
                                      !.pre = [tracked |-> tracked, fails |-> fails,
                                               ex |-> exch]]
          /\ budget' = [budget EXCEPT !.ticks = @ - 1, !.faults = @ - Cardinality(fails)]
    /\ UNCHANGED <<mode, exch, now, pc, loc, sleep_until, chan, feed, limiter,
                   capital_allocations, queue, scan, submitted, killed, tasks>>

\* One call of QuoteEngine::cancel_all.  call.pre keeps the ids it names.
CancelAllCall ==
    /\ mode = "orders"
    /\ budget.ticks > 0
    /\ \E ok \in BOOLEAN :
          /\ ~ok => budget.faults > 0 /\ cancel_all_ids(engines["A"]) # {}
          /\ LET active_ids == cancel_all_ids(engines["A"])
                 r == cancel_orders(exch, active_ids, ok)
             IN  /\ exch' = r.ex
                 /\ sent' = IF active_ids = {} THEN sent ELSE sent \cup {"cancel"}
                 /\ engines' = IF r.res = None THEN engines
                               ELSE [engines EXCEPT !["A"].tracked_orders = <<>>]
                 /\ call' = [CallNone EXCEPT !.op = "cancel_all",
                                !.res = IF r.res = None THEN "Err_cancel" ELSE "Ok",
                                !.pre = [ids |-> active_ids]]
                 /\ budget' = [budget EXCEPT !.ticks = @ - 1,
                                             !.faults = IF ok THEN @ ELSE @ - 1]
    /\ UNCHANGED <<mode, now, pc, loc, sleep_until, chan, feed, limiter,
                   capital_allocations, queue, scan, submitted, killed, tasks>>

NextOrders ==
    \/ ReconcilePass
    \/ CancelAllCall
    \/ ExchangeFill

SpecOrders == InitOrders /\ [][NextOrders]_vars

\* --------------------------------------------------------------------------
\* The pure functions, each applied once to inputs drawn from small sets

\* should_requote: midpoints around a threshold of 0.5 cent, times around an
\* interval of 30 seconds.
RequoteMids == {490, 494, 495, 500, 505, 506}

RequoteTimes == {29, 30, 31, 60}

EvalShouldRequote ==
    /\ mode = "pure"
    /\ call.op = "none"
    /\ \E stored \in {<<None, None>>} \cup {<<Some(m), Some(0)>> : m \in {495, 500}},
          m \in RequoteMids, t \in RequoteTimes :
          LET e == [NewEngine(Market("A"), StrategyDefault, FALSE)
                       EXCEPT !.last_midpoint = stored[1], !.last_requote = stored[2]]
          IN  call' = [CallNone EXCEPT !.op = "should_requote",
                          !.pre = [last_midpoint |-> stored[1], last_requote |-> stored[2],
                                   new_midpoint |-> m, t |-> t,
                                   threshold_cents |-> e.config.requote_threshold_cents,
                                   interval |-> e.config.requote_interval_secs],
                          !.res = IF should_requote(e, m, t) THEN "true" ELSE "false"]
    /\ UNCHANGED <<mode, engines, exch, now, pc, loc, sleep_until, chan, feed, limiter,
                   capital_allocations, queue, scan, sent, submitted, killed, tasks, budget>>

\* allocate_capital and initialize_markets: up to MaxMarkets markets, scores
\* from a small set that has zero in it.
MaxMarkets == 3

AllocScores == {<<0, 1>>, <<1, 1>>, <<2, 1>>, <<7, 1>>}

AllocTotals == {0, 700, 2000}

AllocCaps == {0, 500, 3000}

\* The condition id of the i-th market of a list.
CondId(i) == ToString(i)

ScoreLists ==
    UNION {[1..n -> AllocScores] : n \in 1..MaxMarkets}

\* The engines the manager may already hold: none, or one for the first
\* market that has its own order size, a position and a resting order.
ExistingEngines ==
    {<<>>,
     [c \in {CondId(1)} |->
        [NewEngine(Market(c) @@ [score |-> <<1, 1>>],
                   [StrategyDefault EXCEPT !.order_size = 77], FALSE)
            EXCEPT !.inventory_yes = 250,
                   !.total_bought_value = 120,
                   !.tracked_orders =
                       <<NewTracked(1, [token_id |-> <<c, "yes">>, side |-> "Buy",
                                        price |-> 480, size |-> 77])>>]]}

EvalAllocate ==
    /\ mode = "pure"
    /\ call.op = "none"
    /\ \E scores \in ScoreLists, total \in AllocTotals, cap \in AllocCaps,
          existing \in ExistingEngines :
          LET named == [i \in 1..Len(scores) |-> <<CondId(i), scores[i]>>]
              markets == [i \in 1..Len(scores) |->
                            Market(CondId(i)) @@ [score |-> scores[i]]]
              risk == [RiskDefault EXCEPT !.max_total_capital = total, !.max_per_market = cap]
              init == initialize_markets(existing, StrategyDefault, risk, markets)
          IN  /\ call' = [CallNone EXCEPT !.op = "allocate_capital",
                             !.pre = [scores |-> scores, total |-> total, cap |-> cap,
                                      existing |-> existing],
                             !.res = allocate_capital(named, total, cap)]
              /\ capital_allocations' = init.capital_allocations
              /\ engines' = init.engines
    /\ UNCHANGED <<mode, exch, now, pc, loc, sleep_until, chan, feed, limiter,
                   queue, scan, sent, submitted, killed, tasks, budget>>

\* generate_quotes: midpoints on and off the tick, the skews compute_quotes can
\* pass, two tick sizes, offsets from the defaults down to base = min.
QuoteMids == {5, 200, 500, 505, 995}

QuoteSkews == {<<-1, 2>>, <<-1, 4>>, <<0, 1>>, <<1, 4>>, <<1, 2>>}

QuoteTicks == {1, 10}

QuoteOffsets == {<<10, 5>>, <<5, 5>>, <<20, 5>>}

MaxLevels == 3

EvalGenerateQuotes ==
    /\ mode = "pure"
    /\ call.op = "none"
    /\ \E m \in QuoteMids, skew \in QuoteSkews, tick \in QuoteTicks,
          off \in QuoteOffsets, fee \in {None, Some(200)}, levels \in 1..MaxLevels :
          LET p == [midpoint |-> m, base_offset_cents |-> off[1],
                    min_offset_cents |-> off[2], tick_size |-> tick,
                    order_size |-> StrategyDefault.order_size, num_levels |-> levels,
                    fee_rate_bps |-> fee, inventory_skew |-> skew]
          IN  call' = [CallNone EXCEPT !.op = "generate_quotes", !.pre = p,
                                      !.res = generate_quotes(p)]
    /\ UNCHANGED <<mode, engines, exch, now, pc, loc, sleep_until, chan, feed, limiter,
                   capital_allocations, queue, scan, sent, submitted, killed, tasks, budget>>

\* place_quotes up to its first request: the orders built for one or two
\* quotes, among them quotes at the ends of the price range.
BuildPrices == {0, 10, 490, 510, 990, ONE}

BuildQuotes ==
    {[bid_price |-> b, ask_price |-> a, size |-> z, level |-> 0] :
        b \in BuildPrices, a \in BuildPrices, z \in {5, 500}}

EvalBuildOrders ==
    /\ mode = "pure"
    /\ call.op = "none"
    /\ \E q1 \in BuildQuotes, more \in {<<>>} \cup {<<q>> : q \in BuildQuotes} :
          call' = [CallNone EXCEPT !.op = "place_quotes", !.pre = <<q1>> \o more,
                                  !.res = BuildOrders("yes", "no", <<q1>> \o more)]
    /\ UNCHANGED <<mode, engines, exch, now, pc, loc, sleep_until, chan, feed, limiter,
                   capital_allocations, queue, scan, sent, submitted, killed, tasks, budget>>

\* should_kill_switch: a portfolio of up to MaxPortfolio markets, each an
\* inventory with its midpoint, and the same portfolio with one more market.
MaxPortfolio == 2

\* (yes_tokens, no_tokens, total_bought_value, total_sold_value), in tokens
\* and dollars: flat, long YES bought at 0.60, long NO bought at 0.50, sold out
\* at a profit.
KillInventories ==
    {<<0, 0, 0, 0>>, <<1000, 0, 600, 0>>, <<0, 100, 50, 0>>, <<0, 0, 100, 150>>}

KillMids == {400, 500, 550}

KillLosses == {0, 50, 100}

\* The fields of a market that should_kill_switch reads.
KillMarket(inv, mid) ==
    [inventory_yes |-> inv[1], inventory_no |-> inv[2],
     total_bought_value |-> inv[3] * ONE, total_sold_value |-> inv[4] * ONE,
     last_midpoint |-> Some(mid)]

KillMarkets == {KillMarket(inv, mid) : inv \in KillInventories, mid \in KillMids}

EvalKillSwitch ==
    /\ mode = "pure"
    /\ call.op = "none"
    /\ \E markets \in UNION {[1..n -> KillMarkets] : n \in 0..MaxPortfolio},
          extra \in KillMarkets, loss \in KillLosses :
          LET risk == [RiskDefault EXCEPT !.kill_switch_loss = loss]
          IN  call' = [CallNone EXCEPT !.op = "should_kill_switch",
                          !.pre = [markets |-> markets, extra |-> extra, loss |-> loss],
                          !.res = [base |-> should_kill_switch(markets, risk),
                                   extended |-> should_kill_switch(Append(markets, extra), risk)]]
    /\ UNCHANGED <<mode, engines, exch, now, pc, loc, sleep_until, chan, feed, limiter,
                   capital_allocations, queue, scan, sent, submitted, killed, tasks, budget>>

\* inventory_check: holdings that put net / cap on and around -1, -0.5, 0.5
\* and 1, and a strategy without a cap.
CheckTokens == {0, 250, 500, 750, 1000, 2000}

CheckCaps == {0, 1000}

EvalInventoryCheck ==
    /\ mode = "pure"
    /\ call.op = "none"
    /\ \E yes \in CheckTokens, no \in CheckTokens, cap \in CheckCaps :
          LET inventory == [yes_tokens |-> yes, no_tokens |-> no,
                            total_bought_value |-> 0, total_sold_value |-> 0]
              strategy == [StrategyDefault EXCEPT !.inventory_cap = cap]
          IN  call' = [CallNone EXCEPT !.op = "inventory_check",
                          !.pre = [net |-> yes - no, cap |-> cap],
                          !.res = inventory_check(inventory, strategy)]
    /\ UNCHANGED <<mode, engines, exch, now, pc, loc, sleep_until, chan, feed, limiter,
                   capital_allocations, queue, scan, sent, submitted, killed, tasks, budget>>

\* portfolio_stats over up to MaxPortfolio engines: an engine that has not
\* quoted yet (no midpoint, nothing tracked, flat), or one with a midpoint, an
\* inventory and tracked orders that are resting, partly filled or all filled.
StatsTracked ==
    LET o(id, status, filled) ==
            [NewTracked(id, [token_id |-> "yes", side |-> "Buy", price |-> 490, size |-> 500])
                EXCEPT !.status = status, !.filled = filled]
    IN  {<<>>,
         <<o(1, "Open", 0)>>,
         <<o(1, "Filled", 500)>>,
         <<o(1, "Filled", 500), o(2, "PartiallyFilled", 250)>>}

StatsEngines ==
    {KillMarket(<<0, 0, 0, 0>>, HALF) @@ [tracked_orders |-> <<>>, fresh |-> TRUE]}
    \cup UNION {{KillMarket(inv, mid) @@ [tracked_orders |-> tr, fresh |-> FALSE] :
                    mid \in KillMids,
                    \* a buy of YES that was matched has left YES tokens
                    tr \in {t \in StatsTracked :
                               (\E i \in 1..Len(t) : t[i].filled > 0) => inv[1] >= 500}} :
                 inv \in KillInventories}

EvalPortfolioStats ==
    /\ mode = "pure"
    /\ call.op = "none"
    /\ \E list \in UNION {[1..n -> StatsEngines] : n \in 0..MaxPortfolio} :
          LET engs == [c \in {CondId(i) : i \in 1..Len(list)} |->
                          LET g == list[CHOOSE i \in 1..Len(list) : CondId(i) = c]
                          IN  [inventory_yes |-> g.inventory_yes,
                               inventory_no |-> g.inventory_no,
                               total_bought_value |-> g.total_bought_value,
                               total_sold_value |-> g.total_sold_value,
                               last_midpoint |-> IF g.fresh THEN None ELSE g.last_midpoint,
                               tracked_orders |-> g.tracked_orders]]
          IN  /\ engines' = engs
              /\ call' = [CallNone EXCEPT !.op = "portfolio_stats",
                                          !.res = portfolio_stats(engs)]
    /\ UNCHANGED <<mode, exch, now, pc, loc, sleep_until, chan, feed, limiter,
                   capital_allocations, queue, scan, sent, submitted, killed, tasks, budget>>

InitPure ==
    /\ InitCommon
    /\ tasks = NoTasks
    /\ mode = "pure"
    /\ feed = "off"
    /\ budget = Budget0
    /\ engines = <<>>
    /\ pc = Idle("idle")
    /\ sleep_until = 0
    /\ limiter = NewLimiter(0, 0)

NextPure ==
    \/ EvalShouldRequote
    \/ EvalAllocate
    \/ EvalGenerateQuotes
    \/ EvalKillSwitch
    \/ EvalBuildOrders
    \/ EvalPortfolioStats
    \/ EvalInventoryCheck

SpecPure == InitPure /\ [][NextPure]_vars

\* --------------------------------------------------------------------------
\* Properties of the live run loop (SpecRun)

SameOrders(old, new) ==
    /\ Len(old) = Len(new)
    /\ \A i \in 1..Len(old) : old[i].order_id = new[i].order_id

\* What the growth d of order o's filled amount adds to the given quantity.
FillShare(o, d, yes_id, what) ==
    CASE what = "yes" -> IF o.token_id # yes_id THEN 0 ELSE IF o.side = "Buy" THEN d ELSE -d
      [] what = "no" -> IF o.token_id = yes_id THEN 0 ELSE IF o.side = "Buy" THEN d ELSE -d
      [] what = "bought" -> IF o.side = "Buy" THEN d * o.price ELSE 0
      [] OTHER -> IF o.side = "Buy" THEN 0 ELSE d * o.price

RECURSIVE FillDelta(_, _, _, _)
\* What the growth of `filled` from the orders `old` to the same orders `new`,
\* reconciled, adds to the given quantity.
FillDelta(old, new, yes_id, what) ==
    IF old = <<>> THEN 0
    ELSE FillShare(Head(old), Head(new).filled - Head(old).filled, yes_id, what)
         + FillDelta(Tail(old), Tail(new), yes_id, what)

\* C1: across the live ticks of an engine each filled quantity is counted
\* once: a reconciliation pass changes inventory_yes, inventory_no,
\* total_bought_value and total_sold_value by the growth of each tracked
\* order's filled amount since the previous pass, and by nothing for an order
\* whose filled amount did not change.
C1_ReconcileStep ==
    LET c == pc.eng
        e == engines[c]
        f == engines'[c]
        yes_id == e.market.token_yes_id
    IN  (/\ pc.at = "reconcile"
         /\ pc'.at \in {"cancel", "post", "sleep", "select", "next"}
         /\ SameOrders(e.tracked_orders, f.tracked_orders))
        => /\ f.inventory_yes - e.inventory_yes =
                FillDelta(e.tracked_orders, f.tracked_orders, yes_id, "yes")
           /\ f.inventory_no - e.inventory_no =
                FillDelta(e.tracked_orders, f.tracked_orders, yes_id, "no")
           /\ f.total_bought_value - e.total_bought_value =
                FillDelta(e.tracked_orders, f.tracked_orders, yes_id, "bought")
           /\ f.total_sold_value - e.total_sold_value =
                FillDelta(e.tracked_orders, f.tracked_orders, yes_id, "sold")

C1_FillsCountedOnce == [][C1_ReconcileStep]_vars

\* C6: in every requote, of tick_live and of the websocket loop, no place
\* request is sent before the cancel request for the active tracked orders has
\* returned, and a failed cancel is reported before any placement begins.
C6_CancelBeforePlace ==
    pc.at = "post" =>
        \/ loc.cancel \in {"none", "ok"}
        \/ loc.cancel = "err" /\ loc.cancel_err_reported

\* C9: when the shutdown signal ends the live run loop, cancel_all has run to
\* completion and no order the exchange accepted from the engine is still open.
C9_ShutdownLeavesNothingOpen ==
    (mode \in {"rest", "ws"} /\ pc.at = "stopped") =>
        \A id \in 1..Len(exch) : ~exch[id].open

\* --------------------------------------------------------------------------
\* Properties of the manager (SpecMgr)

RECURSIVE LossSum(_, _)
\* The sum over the engines S of yes * mid + no * (1 - mid) + sold - bought,
\* mid being the engine's last_midpoint or 0.5.
LossSum(engs, S) ==
    IF S = {} THEN 0
    ELSE LET c == CHOOSE x \in S : TRUE
             e == engs[c]
             mid == IF e.last_midpoint = None THEN ONE \div 2 ELSE e.last_midpoint[1]
         IN  e.inventory_yes * mid + e.inventory_no * (ONE - mid)
                 + e.total_sold_value - e.total_bought_value
                 + LossSum(engs, S \ {c})

KillDue(engs) == LossSum(engs, DOMAIN engs) < -(MgrRisk.kill_switch_loss * ONE)

AllUntracked == \A c \in DOMAIN engines : engines[c].tracked_orders = <<>>

\* C2 as stated: a tick_all call that finds the total unrealized PnL below
\* -kill_switch_loss has, when it returns, emptied every engine's tracked_orders.
C2_KillSwitchEmptiesTracked ==
    (call.op = "tick_all" /\ call.kill /\ pc.at = "idle") => AllUntracked

\* C2, amended: tick_all takes the kill-switch path exactly when the total
\* unrealized PnL is below -kill_switch_loss; on that path it sends the bulk
\* cancel-all request and ticks no engine and places no order; when the request
\* succeeds it empties every engine's tracked_orders and returns Ok, and when
\* the request fails it returns the error and leaves tracked_orders as they were.
C2_KillPath ==
    (call.op = "tick_all" /\ call.kill) =>
        /\ "cancel_all" \in sent
        /\ call.ticked = {} /\ call.placed = 0
        /\ pc.at \in {"bulk_cancel", "idle"}
        /\ pc.at = "idle" =>
              \/ call.res = "Ok" /\ AllUntracked
              \/ call.res = "Err_cancel_all" /\ engines = call.pre

C2_KillDecision ==
    (pc.at = "idle" /\ pc'.at \in {"bulk_cancel", "next"}) => (call'.kill <=> KillDue(engines))

C2_KillSwitchCancelsOrReports == []C2_KillPath /\ [][C2_KillDecision]_vars

\* A kill-switch call has returned Ok and emptied orders that were tracked.
C2_Witness ==
    /\ call.op = "tick_all" /\ call.kill /\ pc.at = "idle" /\ call.res = "Ok"
    /\ \E c \in DOMAIN call.pre : call.pre[c].tracked_orders # <<>>
    /\ AllUntracked

\* C3: once the kill switch has triggered in a tick_all call, no later tick_all
\* call ticks an engine or places an order, whatever rescans happen in between.
C3_KillSwitchLatches == killed => pc.at \notin {"fetch", "reconcile", "cancel", "post"}

\* C7: no order of an engine that a rescan dropped is left open on the exchange.
C7_DroppedEngineOrdersCancelled ==
    mode = "mgr" => \A id \in 1..Len(exch) : exch[id].open => exch[id].owner \in DOMAIN engines

\* C8: after every completed rescan the condition ids of the engine map are
\* among those of the ranked scan just computed, and every market of the map was
\* reported active and not closed by that scan.
C8_EngineMapWithinRankedScan ==
    (mode = "mgr" /\ scan.done) =>
        /\ DOMAIN engines \subseteq {scan.ranked[i] : i \in 1..Len(scan.ranked)}
        /\ DOMAIN engines \subseteq scan.live

\* A rescan has completed that dropped an engine with orders and kept or added one.
C8_Witness ==
    /\ mode = "mgr" /\ pc.at = "idle"
    /\ call.op = "rescan" /\ call.res = "Ok"
    /\ engines # <<>>
    /\ \E id \in 1..Len(exch) : exch[id].owner \notin DOMAIN engines

\* C4: over any sequence of tick_all calls the orders submitted to the exchange
\* within a 10-second window never exceed the burst limit, the orders of ticks
\* that fail part-way through their batches or end in an error included.
C4_BurstLimitRespected ==
    mode = "mgr" =>
        Len(SelectSeq(submitted, LAMBDA x : now - x < BurstWindow)) <= limiter.burst_limit

\* --------------------------------------------------------------------------
\* Properties of the RateLimiter (SpecLimiter)

Within(ts, t, window) == Len(SelectSeq(ts, LAMBDA x : t - x < window))

\* C5: can_place(n) returns false whenever k submissions were recorded within
\* the last 10 seconds and n > burst_limit - k, and whenever the submissions
\* recorded within the last 600 seconds plus n exceed sustained_limit, and true
\* in every other case; after records with no time elapsing it admits n exactly
\* when the recorded count plus n is within burst_limit and sustained_limit.
C5_CanPlaceExact ==
    (mode = "limiter" /\ call.op = "can_place") =>
        LET k == Within(call.pre, call.t, 10)
            s == Within(call.pre, call.t, 600)
            n == call.arg
        IN  /\ (n > limiter.burst_limit - k) => call.res = "false"
            /\ (s + n > limiter.sustained_limit) => call.res = "false"
            /\ (~(n > limiter.burst_limit - k) /\ ~(s + n > limiter.sustained_limit))
                  => call.res = "true"
            /\ (\A i \in 1..Len(call.pre) : call.pre[i] = call.t) =>
                  (call.res = "true" <=>
                      /\ Len(call.pre) + n <= limiter.burst_limit
                      /\ Len(call.pre) + n <= limiter.sustained_limit)

\* can_place has refused a count that fits burst_limit on its own, because of
\* the submissions of the last 10 seconds, older ones being recorded too.
C5_Witness ==
    /\ mode = "limiter" /\ call.op = "can_place" /\ call.res = "false"
    /\ call.arg <= limiter.burst_limit
    /\ Within(call.pre, call.t, 600) + call.arg <= limiter.sustained_limit
    /\ Within(call.pre, call.t, 10) < Len(call.pre)

\* --------------------------------------------------------------------------
\* Properties of the pure functions (SpecPure)

\* C11: should_requote answers true when no midpoint is stored; once a requote
\* has stored last_midpoint and last_requote it answers true exactly when the
\* midpoint moved by more than requote_threshold_cents / 100 or more than
\* requote_interval_secs have passed since last_requote.
C11_ShouldRequoteExact ==
    call.op = "should_requote" =>
        LET i == call.pre
            moved == Abs(i.new_midpoint - i.last_midpoint[1]) * 100 * 10
                         > i.threshold_cents * ONE
            expired == i.t - i.last_requote[1] > i.interval
        IN  IF i.last_midpoint = None THEN call.res = "true"
            ELSE (call.res = "true") <=> (moved \/ expired)

\* The boundary: the midpoint moved by exactly the threshold and exactly the
\* interval has passed, and should_requote answered false.
C11_Witness ==
    /\ call.op = "should_requote"
    /\ call.pre.last_midpoint # None
    /\ Abs(call.pre.new_midpoint - call.pre.last_midpoint[1]) * 100 * 10
           = call.pre.threshold_cents * ONE
    /\ call.pre.t - call.pre.last_requote[1] = call.pre.interval
    /\ call.res = "false"

\* C12: allocate_capital on a non-empty list of non-negative scores returns
\* one allocation per market, each at most max_per_market, summing to at most
\* total_capital, in the proportional and in the equal-split case; and the
\* capital_allocations map initialize_markets stores keeps the same bounds.
RECURSIVE SumAlloc(_)
SumAlloc(alloc) ==
    IF alloc = <<>> THEN <<0, 1>> ELSE FracAdd(Head(alloc)[2], SumAlloc(Tail(alloc)))

C20_QuotesKeepMinOffset ==
    call.op = "generate_quotes" =>
        \A i \in 1..Len(call.res) :
            /\ call.res[i].bid_price <= call.pre.midpoint - call.pre.min_offset_cents
            /\ call.res[i].ask_price >= call.pre.midpoint + call.pre.min_offset_cents

\* --------------------------------------------------------------------------
\* Properties of tick_live's effect on the engine (SpecRun)

TickErrors == {"Err_midpoint", "Err_cancel", "Err_post"}

\* C13: when a live tick fails at any step (the midpoint fetch, the cancel, the
\* placement), the engine it returns from equals the engine it started on:
\* tracked_orders with their filled and status, the inventories, the bought and
\* sold values, last_midpoint, last_requote and current_quotes.
C13_FailedTickLeavesEngine ==
    [][(call.op = "tick_live" /\ call.res = "none" /\ call'.res \in TickErrors)
          => engines'["A"] = call'.pre]_vars

\* C14: inventory_yes, inventory_no, total_bought_value and total_sold_value of
\* every engine are at least zero in every reachable state, also after a sell
\* order fills while the engine holds less than the filled amount.
C14_InventoryNonNegative ==
    \A c \in DOMAIN engines :
        /\ engines[c].inventory_yes >= 0
        /\ engines[c].inventory_no >= 0
        /\ engines[c].total_bought_value >= 0
        /\ engines[c].total_sold_value >= 0

\* --------------------------------------------------------------------------
\* Properties of the inventory cap (SpecCap)

NetPosition(e) == e.inventory_yes - e.inventory_no

\* The orders a step puts on the exchange.
NewlyPlaced == {exch'[i] : i \in (Len(exch) + 1)..Len(exch')}

\* C15: a requote made while the net position is at or above inventory_cap
\* places no YES buy order, and one made while it is at or below -inventory_cap
\* places no YES sell order.
C15_CapStopsQuotingSide ==
    [][\A o \in NewlyPlaced :
          LET e == engines[o.owner]
              yes == o.token_id = e.market.token_yes_id
          IN  /\ NetPosition(e) >= e.config.inventory_cap => ~(yes /\ o.side = "Buy")
              /\ NetPosition(e) <= -e.config.inventory_cap => ~(yes /\ o.side = "Sell")]_vars

\* --------------------------------------------------------------------------
\* Properties of the websocket tasks and the websocket loop (SpecWs)

\* C16: when the market feed has failed and stays failed, the engine quotes
\* over REST: a fallback tick runs.  Stated for a finite run: once the
\* websocket loop has waited at its select for three tick intervals since an
\* error of the market subscription, with no subscription succeeding since, a
\* REST fallback tick has started.
C16_FallbackTickRuns ==
    LET t == tasks.task["market"]
    IN  (t.down_age # None /\ t.down_age[1] >= MaxDownAge) => budget.ticks < WsBudget.ticks

\* C18: in each of the two subscription tasks a subscription error is followed,
\* in this order, by Disconnected, the wait, the restart and Reconnected; so
\* what a task has done since its last error is a prefix of that sequence, and
\* no Reconnected is sent without a Disconnected of the same task before it.
ErrorSequence == <<"error", "Disconnected", "wait", "restart", "Reconnected">>

C18_ErrorThenDisconnectWaitRestartReconnect ==
    \A k \in DOMAIN tasks.task :
        LET h == tasks.task[k].hist
        IN  /\ Len(h) <= Len(ErrorSequence)
            /\ h = SubSeq(ErrorSequence, 1, Len(h))

AllTasksDone == \A k \in DOMAIN tasks.task : tasks.task[k].at = "done"

\* C19 as stated: after WsManager::shutdown() both tasks terminate, and none
\* of them starts a further subscription, wherever the signal finds them.
C19_ShutdownStopsTasksAtOnce ==
    /\ tasks.shutdown ~> AllTasksDone
    /\ [](\A k \in DOMAIN tasks.task : ~tasks.task[k].late)

\* C19 as the code has it: after WsManager::shutdown() both tasks terminate
\* (waiting on the stream, blocked in a send, at the loop head or asleep); a
\* task that reads the flag at its loop head after the signal starts no
\* subscription, and a task that had read it just before may start one more,
\* which its select ends: it starts none once its select has seen the signal.
C19_ShutdownTerminatesTasks ==
    /\ tasks.shutdown ~> AllTasksDone
    /\ [][\A k \in DOMAIN tasks.task :
             /\ (tasks.shutdown /\ tasks.task[k].at = "check")
                   => tasks'.task[k].at # "subscribe"
             /\ tasks.task[k].seen => tasks'.task[k].at # "stream"]_vars

\* shutdown() was called while the market task is blocked in a send on the full
\* channel and the user task waits on its stream.
C19_Witness ==
    /\ tasks.shutdown
    /\ ~ReceiverDropped
    /\ Len(chan) = ChanScaled
    /\ tasks.task["market"].at \in {"send", "send_disc", "send_reconn"}
    /\ tasks.task["user"].at = "stream"

\* What the select of the websocket loop takes up in a step: the shutdown
\* signal, an event of the channel, the fallback tick.
TakesShutdown == ~tasks.shutdown /\ tasks'.shutdown

TakesEvent == Len(chan') < Len(chan)

TakesFallbackTick == budget'.ticks < budget.ticks

\* One of the three is in service: its handler has started and not returned.
InService == pc.at \notin {"select", "stopped"}

\* C17: the websocket loop services at most one of the shutdown signal, a
\* websocket event and the REST fallback tick at a time (none is taken up while
\* a handler is in service), and the fallback tick is only started while
\* ws_connected is false.
C17_OneBranchAtATime ==
    [][/\ (TakesShutdown \/ TakesEvent \/ TakesFallbackTick) => ~InService
       /\ ~(TakesShutdown /\ TakesEvent)
       /\ ~(TakesShutdown /\ TakesFallbackTick)
       /\ ~(TakesEvent /\ TakesFallbackTick)
       /\ TakesFallbackTick => ~engines["A"].ws_connected]_vars

\* The fallback tick is in service while an event waits in the channel.
C17_Witness ==
    /\ call.op = "tick_live"
    /\ InService
    /\ chan # <<>>
    /\ ~tasks.shutdown

\* --------------------------------------------------------------------------
\* Properties of generate_quotes, should_kill_switch and inventory_check
\* (SpecPure)

\* The aligned price of one side of level l: the midpoint less (bid) or plus
\* (ask) the offset, widened by a tenth per level and skewed, on the tick.
AlignedPrice(p, l, side) ==
    LET off == FracMul(compute_offset(p), Frac(10 + l, 10))
        skewed == IF side = "bid" THEN FracMul(off, FracAdd(<<1, 1>>, p.inventory_skew))
                  ELSE FracMul(off, FracAdd(<<1, 1>>, <<-p.inventory_skew[1], p.inventory_skew[2]>>))
        raw == IF side = "bid" THEN FracAdd(<<p.midpoint, 1>>, <<-skewed[1], skewed[2]>>)
               ELSE FracAdd(<<p.midpoint, 1>>, skewed)
    IN  align_to_tick(raw[1], raw[2], p.tick_size)

\* C21: every quote generate_quotes returns has 0 < bid_price < ask_price < 1,
\* both prices multiples of the tick size, and size order_size; a level whose
\* aligned bid is <= 0, whose aligned ask is >= 1 or whose bid >= ask is
\* dropped, and every other level is returned, in order, under its own index.
C21_QuotesValid ==
    call.op = "generate_quotes" =>
        LET p == call.pre
            res == call.res
        IN  /\ \A i \in 1..Len(res) :
                  /\ 0 < res[i].bid_price /\ res[i].bid_price < res[i].ask_price
                  /\ res[i].ask_price < ONE
                  /\ res[i].bid_price % p.tick_size = 0
                  /\ res[i].ask_price % p.tick_size = 0
                  /\ res[i].size = p.order_size
                  /\ res[i].level \in 0..(p.num_levels - 1)
            /\ \A i, j \in 1..Len(res) : i < j => res[i].level < res[j].level
            /\ \A l \in 0..(p.num_levels - 1) :
                  LET b == AlignedPrice(p, l, "bid")
                      a == AlignedPrice(p, l, "ask")
                      at == {i \in 1..Len(res) : res[i].level = l}
                  IN  IF b <= 0 \/ a >= ONE \/ b >= a THEN at = {}
                      ELSE \E i \in at : res[i].bid_price = b /\ res[i].ask_price = a

\* Level 0 was dropped (its bid and ask round to the same tick) and a wider
\* level is returned under its own index.
C21_Witness ==
    /\ call.op = "generate_quotes"
    /\ call.res # <<>>
    /\ call.res[1].level > 0
    /\ AlignedPrice(call.pre, 0, "bid") >= AlignedPrice(call.pre, 0, "ask")
    /\ AlignedPrice(call.pre, 0, "bid") > 0

\* The unrealized PnL of one market: yes_tokens * mid + no_tokens * (1 - mid)
\* + total_sold_value - total_bought_value, in 1/ONE dollars.
MarketPnl(m) ==
    m.inventory_yes * m.last_midpoint[1] + m.inventory_no * (ONE - m.last_midpoint[1])
        + m.total_sold_value - m.total_bought_value

RECURSIVE PortfolioPnl(_)
PortfolioPnl(markets) ==
    IF markets = <<>> THEN 0 ELSE MarketPnl(Head(markets)) + PortfolioPnl(Tail(markets))

\* C22: should_kill_switch returns true exactly when the sum of the listed
\* markets' unrealized PnL is strictly below -kill_switch_loss; so adding a
\* market whose unrealized PnL is negative to a list for which it returns true
\* never makes it return false.
C22_KillSwitchExact ==
    call.op = "should_kill_switch" =>
        LET i == call.pre
            all == Append(i.markets, i.extra)
        IN  /\ call.res.base <=> PortfolioPnl(i.markets) < -(i.loss * ONE)
            /\ call.res.extended <=> PortfolioPnl(all) < -(i.loss * ONE)
            /\ (call.res.base /\ MarketPnl(i.extra) < 0) => call.res.extended

\* The boundary: the portfolio's loss equals kill_switch_loss exactly and the
\* answer is false; one more losing market makes it true.
C22_Witness ==
    /\ call.op = "should_kill_switch"
    /\ Len(call.pre.markets) = MaxPortfolio
    /\ call.pre.loss > 0
    /\ PortfolioPnl(call.pre.markets) = -(call.pre.loss * ONE)
    /\ ~call.res.base
    /\ MarketPnl(call.pre.extra) < 0
    /\ call.res.extended

\* C23: with ratio = net_position / inventory_cap, inventory_check returns
\* (Paused, Adjusted x0.5) when ratio >= 1; (Adjusted x0.5, Paused) when
\* ratio <= -1; (Adjusted x(1+ratio), Adjusted x1/(1+ratio)) when
\* 0.5 < ratio < 1; (Adjusted x1/(1+|ratio|), Adjusted x(1+|ratio|)) when
\* -1 < ratio < -0.5; (Normal, Normal) when -0.5 <= ratio <= 0.5 or the cap is
\* zero; and it never pauses both sides.
C23_InventoryCheckTable ==
    call.op = "inventory_check" =>
        LET net == call.pre.net
            cap == call.pre.cap
            bid == call.res[1]
            ask == call.res[2]
        IN  /\ ~(bid = <<"Paused">> /\ ask = <<"Paused">>)
            /\ IF cap = 0 THEN bid = <<"Normal">> /\ ask = <<"Normal">>
               ELSE IF net >= cap
               THEN bid = <<"Paused">> /\ ask = <<"Adjusted", <<1, 2>>>>
               ELSE IF net <= -cap
               THEN bid = <<"Adjusted", <<1, 2>>>> /\ ask = <<"Paused">>
               ELSE IF 2 * net > cap
               THEN /\ bid = <<"Adjusted", Frac(cap + net, cap)>>
                    /\ ask = <<"Adjusted", Frac(cap, cap + net)>>
               ELSE IF 2 * net < -cap
               THEN /\ bid = <<"Adjusted", Frac(cap, cap - net)>>
                    /\ ask = <<"Adjusted", Frac(cap - net, cap)>>
               ELSE bid = <<"Normal">> /\ ask = <<"Normal">>

\* The net position equals the cap exactly: bids are paused, asks halved.
C23_Witness ==
    /\ call.op = "inventory_check"
    /\ call.pre.cap > 0
    /\ call.pre.net = call.pre.cap
    /\ call.res = << <<"Paused">>, <<"Adjusted", <<1, 2>>>> >>

\* --------------------------------------------------------------------------
\* Properties of the order of a live tick's steps (SpecCap)

RECURSIVE FilledSum(_, _, _)
\* What the filled amounts of the orders add to the YES ("yes") or NO ("no")
\* inventory.
FilledSum(orders, yes_id, what) ==
    IF orders = <<>> THEN 0
    ELSE FillShare(Head(orders), Max(Head(orders).filled, 0), yes_id, what)
         + FilledSum(Tail(orders), yes_id, what)

SameInventory(e, f) ==
    /\ f.inventory_yes = e.inventory_yes /\ f.inventory_no = e.inventory_no

\* C24: in a live tick that reconciles, the filled amounts reconciliation
\* found are in the inventory when the tick goes on to should_requote (the step
\* that leaves the reconciliation has applied them), the inventory does not
\* change during the rest of the tick, and the quotes the tick stores are those
\* compute_quotes gives for that inventory: the skew is the post-fill one.
C24_TickSteps ==
    LET c == pc.eng
        e == engines[c]
        f == engines'[c]
        yes_id == e.market.token_yes_id
    IN  /\ (/\ pc.at = "reconcile"
             /\ pc'.at \in {"cancel", "post", "sleep", "select", "next"}
             /\ SameOrders(e.tracked_orders, f.tracked_orders))
               => /\ f.inventory_yes - e.inventory_yes =
                        FilledSum(f.tracked_orders, yes_id, "yes")
                  /\ f.inventory_no - e.inventory_no =
                        FilledSum(f.tracked_orders, yes_id, "no")
        /\ (pc.at \in {"cancel", "post"} /\ loc.path = "rest" /\ pc'.at # "stopped")
               => SameInventory(e, f)
        /\ (pc.at = "post" /\ loc.path = "rest" /\ call'.res = "Ok")
               => f.current_quotes = compute_quotes(f, f.last_midpoint[1])

C24_FillsAppliedBeforeQuoting == [][C24_TickSteps]_vars

\* A tick has reconciled a fill and requoted, and the quotes it stored differ
\* from those the inventory of before the fill would have given.
C24_Witness ==
    /\ call.op = "tick_live" /\ call.res = "Ok"
    /\ engines["A"].last_requote = Some(now)
    /\ call.pre.tracked_orders # <<>>
    /\ engines["A"].inventory_yes # call.pre.inventory_yes
    /\ engines["A"].current_quotes # <<>>
    /\ engines["A"].current_quotes
           # compute_quotes(call.pre, engines["A"].last_midpoint[1])

\* --------------------------------------------------------------------------
\* Properties of cancel_orders (SpecCancel)

\* C25: cancel_orders called twice with the same ids leaves the engine
\* (tracked_orders, inventory, last_midpoint, last_requote, current_quotes)
\* after the second call as it was after the first, whether the exchange
\* cancels the ids the second time or reports them not canceled.
C25_CancelTwiceSameEngine ==
    [][(call.op = "cancel_orders" /\ call'.arg > call.arg) => engines' = engines]_vars

\* The first call cancelled orders, one of them filled in part; the second
\* call found the same ids not canceled.
C25_Witness ==
    /\ call.op = "cancel_orders"
    /\ call.arg = 2
    /\ call.pre = Some(0)
    /\ \E i \in loc.ids :
          exch[i].size_matched > 0 /\ exch[i].size_matched < exch[i].original_size
    /\ engines["A"].tracked_orders # <<>>

\* --------------------------------------------------------------------------
\* Properties of the orders an engine has on the exchange (SpecBurst, SpecRun)

\* The ids of the orders an engine tracks.
TrackedIds(e) == {e.tracked_orders[i].order_id : i \in 1..Len(e.tracked_orders)}

\* No tick is in flight: the caller is between two ticks.
BetweenTicks == pc.at \in {"select", "sleep", "idle", "next"}

\* C26: after any sequence of live ticks, the ticks that fail part-way
\* included, every order the exchange accepted from an engine and still has
\* open is in that engine's tracked_orders.
C26_OpenOrdersTracked ==
    BetweenTicks =>
        \A id \in 1..Len(exch) :
            (exch[id].open /\ exch[id].owner \in DOMAIN engines)
                => id \in TrackedIds(engines[exch[id].owner])

RECURSIVE UntrackedFillValue(_, _, _, _)
\* The value (size_matched * price) of the fills of engine c's orders of one
\* side that the engine no longer tracks, over the exchange orders id..Len(ex).
UntrackedFillValue(ex, id, c, side) ==
    IF id > Len(ex) THEN 0
    ELSE (IF ex[id].owner = c /\ ex[id].side = side /\ id \notin TrackedIds(engines[c])
          THEN ex[id].size_matched * ex[id].price ELSE 0)
         + UntrackedFillValue(ex, id + 1, c, side)

\* C27: every fill the exchange executes on an order of an engine comes to be
\* reflected in the engine's inventory and bought/sold values, a fill between
\* a tick's reconciliation and its cancel-and-replace included.  Fills are
\* applied from tracked orders only and the bought and sold values only grow,
\* so between two ticks the fills of the orders the engine has stopped
\* tracking are all in them.
C27_FillsReflected ==
    BetweenTicks =>
        \A c \in DOMAIN engines :
            /\ engines[c].total_bought_value >= UntrackedFillValue(exch, 1, c, "Buy")
            /\ engines[c].total_sold_value >= UntrackedFillValue(exch, 1, c, "Sell")

\* A tick_live call made by tick_all returns in this step.
TickReturns ==
    /\ mode = "mgr"
    /\ pc.at \in {"fetch", "reconcile", "cancel", "post"}
    /\ pc'.at = "next"

\* How many timestamps this step adds to the rate limiter.
Recorded == Len(limiter'.order_timestamps) - Len(limiter.order_timestamps)

\* The orders the returning tick put on the exchange when it returned Ok: those
\* of its earlier batches and those of the batch this step accepts; none when
\* it returned before place_quotes or with an error.
PlacedByTick ==
    IF pc.at = "post" /\ engines'[pc.eng] # engines[pc.eng]
    THEN Len(loc.placed) + Len(exch') - Len(exch)
    ELSE 0

\* C28: when an engine tick inside tick_all returns Ok, the number of
\* timestamps tick_all records in the rate limiter is the number of orders
\* that tick placed on the exchange: none when the tick did not requote, the
\* orders of the requote otherwise.
C28_RecordedIsPlaced == [][TickReturns => Recorded = PlacedByTick]_vars

\* tick_all takes the next engine from its list and the limiter refuses it.
SkipStep ==
    /\ mode = "mgr"
    /\ pc.at = "next"
    /\ queue # <<>>
    /\ queue' # queue
    /\ ~can_place(limiter, engines[Head(queue)].config.num_levels * 4, now).ok

\* No timestamp is added to the limiter in this step (can_place may drop
\* expired ones).
NothingRecorded ==
    /\ Len(limiter'.order_timestamps) <= Len(limiter.order_timestamps)
    /\ \A i \in 1..Len(limiter'.order_timestamps) :
          \E j \in 1..Len(limiter.order_timestamps) :
             limiter'.order_timestamps[i] = limiter.order_timestamps[j]

\* tick_all returns from its loop.
LoopReturns == mode = "mgr" /\ pc.at = "next" /\ pc'.at = "idle"

C29_Step ==
    /\ SkipStep =>
          /\ engines' = engines
          /\ exch' = exch
          /\ sent' = sent
          /\ submitted' = submitted
          /\ NothingRecorded
          /\ queue' = Tail(queue)
          /\ pc' = pc
          /\ call' = call
    /\ LoopReturns => queue = <<>>

\* C29: when the rate limiter refuses the estimated 4 * num_levels orders of
\* an engine, tick_all skips the engine and goes on: no engine changes, no
\* request is sent, no order is submitted, no timestamp is recorded, the
\* loop stays in the call with the rest of its list, and the call returns
\* only when the list is used up.
C29_SkipOnRefusal == [][C29_Step]_vars

\* The first engine of a call over two engines has been refused and skipped,
\* the second is still to be taken.
C29_Witness ==
    /\ mode = "mgr"
    /\ Cardinality(DOMAIN engines) = 2
    /\ call.op = "tick_all"
    /\ pc.at = "next"
    /\ Len(queue) = 1
    /\ call.ticked = {}
    /\ limiter.order_timestamps # <<>>

\* A tick_live call made by tick_all returns an error in this step: the
\* midpoint request, the cancel request or a post_orders request failed
\* (a failed status query of reconcile_orders is no error of the tick).
TickFails ==
    /\ TickReturns
    /\ pc.at # "reconcile"
    /\ budget'.faults < budget.faults

C30_Step ==
    /\ TickFails =>
          /\ limiter' = limiter
          /\ queue' = queue
          /\ call'.op = "tick_all"
          /\ call'.res = "none"
    /\ LoopReturns => queue = <<>> /\ call'.res = "Ok"

\* C30: an error of one engine's tick does not end tick_all: the loop stays
\* in the call with its list of engines still to take untouched, nothing is
\* recorded in the rate limiter for the failed tick, and the call returns Ok
\* once the list is used up.
C30_TickErrorIsSoft == [][C30_Step]_vars

\* The first tick_all over two engines has returned Ok: the tick of the
\* engine taken first failed, the other engine was ticked after it and its
\* orders are the only ones recorded.
C30_Witness ==
    /\ mode = "mgr"
    /\ pc.at = "idle"
    /\ call.op = "tick_all"
    /\ call.res = "Ok"
    /\ budget.tick_alls = PairBudget.tick_alls - 1
    /\ budget.faults < PairBudget.faults
    /\ call.ticked = DOMAIN engines
    /\ Cardinality(DOMAIN engines) = 2
    /\ \E c \in DOMAIN engines :
          /\ engines[c].tracked_orders # <<>>
          /\ Len(limiter.order_timestamps) = Len(engines[c].tracked_orders)
          /\ \A d \in DOMAIN engines \ {c} : engines[d].tracked_orders = <<>>

\* The sum of the values of a function to fractions.
RECURSIVE SumOver(_)
SumOver(f) ==
    IF DOMAIN f = {} THEN <<0, 1>>
    ELSE LET c == CHOOSE d \in DOMAIN f : TRUE
         IN  FracAdd(f[c], SumOver([d \in DOMAIN f \ {c} |-> f[d]]))

\* C31: after any sequence of rescans every engine of the map has an entry in
\* capital_allocations, and the allocations that sized the engines of the map
\* sum to at most max_total_capital.
C31_AllocationsCoverEngines ==
    (mode = "mgr" /\ scan.done) =>
        /\ DOMAIN engines \subseteq DOMAIN capital_allocations
        /\ FracLeq(SumOver(scan.sized), <<WideRisk.max_total_capital, 1>>)

\* The ids of the tracked orders of an engine that are Open or PartiallyFilled.
OpenOrPartial(e) ==
    {e.tracked_orders[i].order_id :
        i \in {j \in 1..Len(e.tracked_orders) :
                  e.tracked_orders[j].status \in {"Open", "PartiallyFilled"}}}

\* QuoteEngine::cancel_all is called and returns in this step.
CancelAllStep ==
    /\ mode = "orders"
    /\ call'.op = "cancel_all"
    /\ budget'.ticks < budget.ticks

C32_Step ==
    CancelAllStep =>
        /\ call'.pre.ids = OpenOrPartial(engines["A"])
        /\ IF call'.pre.ids = {} THEN sent' = sent ELSE "cancel" \in sent'
        /\ \/ /\ call'.res = "Ok"
              /\ engines'["A"].tracked_orders = <<>>
              /\ \A id \in call'.pre.ids : ~exch'[id].open
           \/ /\ call'.res = "Err_cancel"
              /\ call'.pre.ids # {}
              /\ engines' = engines
              /\ exch' = exch
              /\ OpenOrPartial(engines'["A"]) = call'.pre.ids

\* C32: QuoteEngine::cancel_all sends a cancel request naming exactly the
\* tracked orders that are Open or PartiallyFilled (no request when there is
\* none) and then empties tracked_orders; when the request fails the error is
\* returned and the engine is as it was, so that a later cancel_all names the
\* same orders.
C32_CancelAllClearsOrKeeps == [][C32_Step]_vars

\* cancel_all has failed on an engine that tracks a Filled order next to
\* active ones, and the list is as it was.
C32_Witness ==
    /\ mode = "orders"
    /\ call.op = "cancel_all"
    /\ call.res = "Err_cancel"
    /\ \E i \in 1..Len(engines["A"].tracked_orders) :
          engines["A"].tracked_orders[i].status = "Filled"
    /\ OpenOrPartial(engines["A"]) = call.pre.ids
    /\ call.pre.ids # {}

\* reconcile_orders is called and returns in this step.
ReconcileStep ==
    /\ mode = "orders"
    /\ call'.op = "reconcile_orders"
    /\ budget'.ticks < budget.ticks

StatusRank(status) ==
    CASE status = "Open" -> 0
      [] status = "PartiallyFilled" -> 1
      [] status = "Filled" -> 2
      [] OTHER -> 3

C33_Step ==
    ReconcileStep =>
        LET old == engines["A"].tracked_orders
            new == engines'["A"].tracked_orders
        IN  /\ Len(new) = Len(old)
            /\ \A i \in 1..Len(old) :
                  LET matched == exch[old[i].order_id].size_matched
                      orig_size == exch[old[i].order_id].original_size
                  IN  /\ old[i].status \in {"Filled", "Cancelled"} =>
                            new[i] = old[i] /\ i \notin call'.pre.fails
                      /\ (old[i].status \notin {"Filled", "Cancelled"}
                            /\ i \notin call'.pre.fails) =>
                            /\ new[i].filled = matched
                            /\ matched >= orig_size => new[i].status = "Filled"
                            /\ (0 < matched /\ matched < orig_size) =>
                                  new[i].status = "PartiallyFilled"
                            /\ matched = 0 => new[i].status = old[i].status
                            /\ new[i] = [old[i] EXCEPT !.filled = new[i].filled,
                                                       !.status = new[i].status]
                      /\ StatusRank(new[i].status) >= StatusRank(old[i].status)

\* C33: a pass of reconcile_orders sets the filled of every order that is not
\* Filled or Cancelled to the exchange's size_matched and its status to Filled
\* when size_matched >= original_size, to PartiallyFilled when it is between,
\* and keeps the status when it is 0; an order that is Filled or Cancelled is
\* not queried and not changed; no status ever moves back along Open,
\* PartiallyFilled, Filled.
C33_ReconcileTable == [][C33_Step]_vars

\* A pass has gone over an order that was already Filled, has moved one order
\* from PartiallyFilled to Filled and left one Open.
C33_Witness ==
    /\ mode = "orders"
    /\ call.op = "reconcile_orders"
    /\ LET old == call.pre.tracked
           new == engines["A"].tracked_orders
       IN  /\ \E i \in 1..Len(old) : old[i].status = "Filled"
           /\ \E i \in 1..Len(old) :
                 old[i].status = "PartiallyFilled" /\ new[i].status = "Filled"
           /\ \E i \in 1..Len(old) : new[i].status = "Open"

C34_Step ==
    ReconcileStep =>
        LET old == engines["A"].tracked_orders
            new == engines'["A"].tracked_orders
        IN  /\ call'.res = "Ok"
            /\ Len(new) = Len(old)
            /\ \A i \in call'.pre.fails :
                  /\ new[i] = old[i]
                  /\ i \in Queried(new)
            /\ \A i \in Queried(old) \ call'.pre.fails :
                  new[i].filled = exch[old[i].order_id].size_matched

\* C34: when the status query of an order fails during reconcile_orders, the
\* order is left as it was, the other orders of the pass are reconciled all
\* the same, the call returns Ok, and the order is among those the next pass
\* queries.
C34_FailedQueryIsSkipped == [][C34_Step]_vars

\* A pass in which the query of a matched order failed and a later order of
\* the list was brought up to date.
C34_Witness ==
    /\ mode = "orders"
    /\ call.op = "reconcile_orders"
    /\ LET old == call.pre.tracked
           new == engines["A"].tracked_orders
       IN  \E i \in call.pre.fails :
              /\ call.pre.ex[old[i].order_id].size_matched > old[i].filled
              /\ new[i] = old[i]
              /\ \E j \in (i + 1)..Len(old) : new[j] # old[j]

\* place_quotes, called by tick_live, returns in this step.
PlaceReturns ==
    /\ mode \in {"rest", "mgr"}
    /\ pc.at = "post"
    /\ pc'.at # "post"
    /\ call'.op # "shutdown"

\* The exchange ids of the orders accepted since place_quotes was called: the
\* orders it tracked so far and those of the batch this step posts.
AcceptedInCall == (Len(exch) - Len(loc.placed) + 1)..Len(exch')

C35_Step ==
    PlaceReturns =>
        \* the Vec of an Ok return is what tick_live stores; an Err carries none
        LET returned == IF budget'.faults < budget.faults THEN <<>>
                        ELSE engines'[pc.eng].tracked_orders
        IN  \* no built order is left unsubmitted, and the last call is in bounds
            /\ AfterBatch(loc.remaining) = <<>>
            /\ Len(NextBatch(loc.remaining)) <= PostBatchMax
            \* one TrackedOrder for each accepted order, and no other
            /\ Len(returned) = Cardinality(AcceptedInCall)
            /\ \A id \in AcceptedInCall :
                  \E i \in 1..Len(returned) :
                     returned[i] = [order_id |-> id,
                                    token_id |-> exch'[id].token_id,
                                    side |-> exch'[id].side,
                                    price |-> exch'[id].price,
                                    size |-> exch'[id].original_size,
                                    filled |-> 0, status |-> "Open"]

\* C35: when place_quotes returns, every order it built has been submitted in
\* calls of at most 15 orders, and what it returns holds exactly one
\* TrackedOrder (Open, filled 0, with the token, side, price and size of the
\* order) for each order the exchange accepted during the call; rejected
\* orders have none and stop no other order.
C35_EveryAcceptedOrderReturned == [][C35_Step]_vars

\* The orders the claim lists for one quote.
QuoteOrders(q) ==
    LET four == << [token_id |-> "yes", side |-> "Buy", price |-> q.bid_price, size |-> q.size],
                   [token_id |-> "yes", side |-> "Sell", price |-> q.ask_price, size |-> q.size],
                   [token_id |-> "no", side |-> "Buy", price |-> ONE - q.ask_price,
                    size |-> q.size],
                   [token_id |-> "no", side |-> "Sell", price |-> ONE - q.bid_price,
                    size |-> q.size] >>
    IN  SelectSeq(four, LAMBDA o :
            /\ ~(o.token_id = "no" /\ o.side = "Buy" /\ o.price <= 0)
            /\ ~(o.token_id = "no" /\ o.side = "Sell" /\ o.price >= ONE))

RECURSIVE QuotesOrders(_)
QuotesOrders(quotes) ==
    IF quotes = <<>> THEN <<>> ELSE QuoteOrders(Head(quotes)) \o QuotesOrders(Tail(quotes))

\* C36: for each quote place_quotes builds a YES Buy at bid, a YES Sell at
\* ask, a NO Buy at 1 - ask unless that is <= 0 and a NO Sell at 1 - bid
\* unless that is >= 1, each with the quote's size, in the order of the
\* quotes: at most 4 orders a quote, and for the quotes generate_quotes
\* returns at most 4 * num_levels orders, the estimate of tick_all.
C36_FourOrdersPerQuote ==
    /\ (mode = "pure" /\ call.op = "place_quotes") =>
          /\ call.res = QuotesOrders(call.pre)
          /\ Len(call.res) <= 4 * Len(call.pre)
    /\ (mode = "pure" /\ call.op = "generate_quotes") =>
          Len(BuildOrders("yes", "no", call.res)) <= 4 * call.pre.num_levels

\* A quote whose ask is 1 and whose bid is 0: both NO orders are left out.
C36_Witness ==
    /\ mode = "pure"
    /\ call.op = "place_quotes"
    /\ Len(call.pre) = 2
    /\ call.pre[1].ask_price = ONE
    /\ call.pre[1].bid_price = 0
    /\ call.pre[2].bid_price = 490
    /\ call.pre[2].ask_price = 510
    /\ Len(call.res) = 6

\* The orders of a list without what reconciliation writes.
Membership(tracked) ==
    [i \in 1..Len(tracked) |-> [tracked[i] EXCEPT !.filled = 0, !.status = "Open"]]

\* What a tick that does not requote must leave as tick_live found it.
SameQuoting(e, f) ==
    /\ Membership(e.tracked_orders) = Membership(f.tracked_orders)
    /\ e.last_midpoint = f.last_midpoint
    /\ e.last_requote = f.last_requote
    /\ e.current_quotes = f.current_quotes
    /\ e.config = f.config
    /\ e.market = f.market

C37_Step ==
    /\ \* reconcile_orders returns and should_requote is false
       (/\ mode = "rest"
        /\ pc.at = "reconcile"
        /\ pc' # pc
        /\ call'.op = "tick_live"
        /\ ~should_requote(engines[pc.eng], loc.midpoint, now)) =>
          /\ pc'.at = "sleep"
          /\ call'.res = "Ok"
          /\ sent' = sent
          /\ exch' = exch
          /\ submitted' = submitted
          /\ SameQuoting(engines'[pc.eng], call.pre)
    /\ \* nothing is tracked, and the tick returns Ok without a requote
       (/\ mode = "rest"
        /\ pc.at = "fetch"
        /\ pc'.at = "sleep"
        /\ call'.op = "tick_live"
        /\ call'.res = "Ok"
        /\ engines'[pc.eng].last_requote = engines[pc.eng].last_requote) =>
          /\ sent' = sent
          /\ exch' = exch
          /\ submitted' = submitted
          /\ engines' = engines

\* C37: a live tick in which should_requote is false returns Ok having sent
\* no cancel and no place request, with the same orders in tracked_orders and
\* last_midpoint, last_requote and current_quotes as it found them; only
\* filled and status of tracked orders, the inventory and the bought and sold
\* values may differ.
C37_NoRequoteFrame == [][C37_Step]_vars

\* A tick that did not requote has returned after its reconciliation recorded
\* a partial fill: the four orders are still tracked and resting.
C37_Witness ==
    /\ mode = "rest"
    /\ pc.at = "sleep"
    /\ call.op = "tick_live"
    /\ call.res = "Ok"
    /\ SameQuoting(engines["A"], call.pre)
    /\ engines["A"] # call.pre
    /\ \E i \in 1..Len(engines["A"].tracked_orders) :
          /\ engines["A"].tracked_orders[i].status = "PartiallyFilled"
          /\ call.pre.tracked_orders[i].status = "Open"
    /\ engines["A"].inventory_yes # call.pre.inventory_yes
          \/ engines["A"].inventory_no # call.pre.inventory_no

\* C38: initialize_markets gives every engine it creates the order size
\* max(1, round(order_size * allocation / max_per_market)), whatever the
\* allocation of the market, zero included (max_per_market above zero, so
\* that the quotient exists), and leaves an engine that exists already as it
\* is.
C38_OrderSizeScaled ==
    (mode = "pure" /\ call.op = "allocate_capital") =>
        \A i \in 1..Len(call.pre.scores) :
            LET c == CondId(i)
                allocation == capital_allocations[c]
            IN  /\ c \in DOMAIN engines
                /\ IF c \in DOMAIN call.pre.existing
                   THEN engines[c] = call.pre.existing[c]
                   ELSE call.pre.cap > 0 =>
                           engines[c].config.order_size =
                               Max(1, Round(StrategyDefault.order_size * allocation[1],
                                            allocation[2] * call.pre.cap))

\* The sum over the engines of f[c].
RECURSIVE SumInt(_)
SumInt(f) ==
    IF DOMAIN f = {} THEN 0
    ELSE LET c == CHOOSE d \in DOMAIN f : TRUE
         IN  f[c] + SumInt([d \in DOMAIN f \ {c} |-> f[d]])

\* C39: portfolio_stats returns the sums over the engines of inventory_yes,
\* of inventory_no, of total_bought_value - total_sold_value and of the
\* unrealized PnL at last_midpoint (0.5 for an engine that has none), and
\* active_markets is the number of engines with at least one tracked order
\* that is Open or PartiallyFilled.
C39_PortfolioStatsSums ==
    (mode = "pure" /\ call.op = "portfolio_stats") =>
        LET E == DOMAIN engines
            mid(c) == IF engines[c].last_midpoint = None THEN HALF
                      ELSE engines[c].last_midpoint[1]
        IN  /\ call.res.total_yes_tokens = SumInt([c \in E |-> engines[c].inventory_yes])
            /\ call.res.total_no_tokens = SumInt([c \in E |-> engines[c].inventory_no])
            /\ call.res.total_capital_deployed =
                  SumInt([c \in E |-> engines[c].total_bought_value
                                          - engines[c].total_sold_value])
            /\ call.res.total_unrealized_pnl =
                  SumInt([c \in E |->
                      engines[c].inventory_yes * mid(c)
                          + engines[c].inventory_no * (ONE - mid(c))
                          + engines[c].total_sold_value - engines[c].total_bought_value])
            /\ call.res.active_markets =
                  Cardinality({c \in E :
                      \E i \in 1..Len(engines[c].tracked_orders) :
                         engines[c].tracked_orders[i].status \in {"Open", "PartiallyFilled"}})

====
